---- MODULE Spec2Model ----
(***************************************************************************)
(* A model of dokdo: the manifest utility (dokdo/cli/make_manifest.py) and *)
(* the validation / index arithmetic of the plotting helpers (api.py).     *)
(*                                                                         *)
(* Strings are sequences of one-character strings, so that the regular     *)
(* expressions, substring tests, joins and sorts of the source are         *)
(* computed character by character.                                        *)
(***************************************************************************)
EXTENDS Integers, Sequences, FiniteSets, TLC

VARIABLES
    pc,         \* position of the running function
    filename,   \* get_sample_id: its argument
    basename,   \* get_sample_id: its local variable
    tree,       \* make_manifest: the files under fastq_dir, as <<directory, name>>
    walk,       \* make_manifest: the directories os.walk has still to yield
    r,          \* make_manifest: the directory os.walk yielded last
    f,          \* make_manifest: the names of r the inner loop has still to visit
    files,      \* make_manifest: the dictionary sample id -> [forward, reverse]
    of,         \* make_manifest: the strings written to output_file, in order
    ids,        \* distance_matrix_plot: dist.ids
    pairs,      \* distance_matrix_plot: its argument pairs
    cdist,      \* distance_matrix_plot: the condensed form of the matrix
    calls,      \* distance_matrix_plot: the calls of square_to_condensed so far,
                \*     each as <<i, j, n, result>>
    idx,        \* distance_matrix_plot: the list idx
    ax,         \* distance_matrix_plot: what was drawn on the axes, in order
    csv,        \* taxa_abundance_bar_plot: the table of level-{level}.csv
    orders,     \* taxa_abundance_bar_plot: its argument orders, as the sequence
                \*     of its items <<k, v>>
    df,         \* taxa_abundance_bar_plot: the data frame df
    done,       \* taxa_abundance_bar_plot: the items of orders gone through
    raised,     \* taxa_abundance_bar_plot: the exception that ended the call
    fn,         \* taxa_abundance_bar_plot or taxa_abundance_box_plot: which one
    by,         \* its argument by
    count,      \* its argument count
    exclude_samples,    \* its argument exclude_samples, as the sequence of
                        \*     its items <<x, list of values>>
    exclude_taxa,       \* its argument exclude_taxa
    sample_names,       \* its argument sample_names
    sort_by_names,      \* its argument sort_by_names
    hide_xlabels,       \* its argument hide_xlabels
    csv_file,   \* its argument csv_file
    xlabels,    \* its argument xlabels
    mf,         \* its local variable mf, the metadata columns
    drawn,      \* the plotting calls made on its axes, in order
    xticklabels,        \* the x tick labels of its axes
    disk,       \* the files the call has written, path |-> table
    callee,     \* read_quality_plot or alpha_rarefaction_plot: which one
    option,     \* its argument strand, or its argument metric
    archive,    \* the names of the files its visualization holds
    as_object,  \* alpha_rarefaction_plot: whether rarefaction is given as a
                \*     Visualization object and not as a path
    scratch,    \* its local variable t: the name of the TemporaryDirectory
    tmp,        \* the scratch directories that exist, name |-> file names
    held,       \* the scratch directories of calls that ended with an
                \*     exception that is still referenced
    loaded,     \* its local variable df, as the name of the file read
    canvas,     \* the plotting calls made on its axes, in order
    error,      \* the exception that ended the call
    ncalls      \* the number of calls made so far

idVars == <<filename, basename>>
mmVars == <<tree, walk, r, f, files, of>>
dmVars == <<ids, pairs, cdist, calls, idx, ax>>
taVars == <<csv, orders, df, done, raised>>
argVars == <<fn, by, count, exclude_samples, exclude_taxa, sample_names,
             sort_by_names, hide_xlabels, csv_file, xlabels>>
outVars == <<mf, drawn, xticklabels, disk>>
opVars == <<callee, option, archive, as_object, scratch, tmp, held, loaded, canvas,
            error, ncalls>>
vars == <<pc, idVars, mmVars, dmVars, taVars, argVars, outVars, opVars>>

\* What each function leaves alone: the state of the other functions.
notId == <<mmVars, dmVars, taVars, argVars, outVars, opVars>>
notMm == <<idVars, dmVars, taVars, argVars, outVars, opVars>>
notDm == <<idVars, mmVars, taVars, argVars, outVars, opVars>>
notTa == <<idVars, mmVars, dmVars, opVars>>
notOp == <<idVars, mmVars, dmVars, taVars, argVars, outVars>>

\* A local variable that has not been assigned yet.
Unassigned == <<"<unassigned>">>

(***************************************************************************)
(* Characters and strings                                                  *)
(***************************************************************************)
NL  == "\n"
TAB == "\t"

\* \d of the re module, over the characters the model uses.
Digits == {"0", "1", "2", "3", "4", "5", "6", "7", "8", "9"}

\* s[a:b] of Python, 0-based and half-open.
Slice(s, a, b) == SubSeq(s, a + 1, b)

\* t in s (substring test of str).
Contains(s, t) ==
    \E a \in 0..(Len(s) - Len(t)) : Slice(s, a, a + Len(t)) = t

IsPrefix(p, s) == Len(p) <= Len(s) /\ SubSeq(s, 1, Len(p)) = p

(***************************************************************************)
(* The four patterns of get_sample_id.  Each MatchX(m) says that the text  *)
(* m is matched by the part of the pattern that precedes the final $.      *)
(***************************************************************************)
DotFastq == <<".", "f", "a", "s", "t", "q">>
DotFq    == <<".", "f", "q">>
DotGz    == <<".", "g", "z">>
R1_001   == <<"_", "R", "1", "_", "0", "0", "1">>
R2_001   == <<"_", "R", "2", "_", "0", "0", "1">>

\* A plausible slip: .gz taken as one more extension, not as an optional
\* suffix of the other two.
MatchExtensionFlat(m) == m \in {DotFastq, DotFq, DotGz}

\* \.(?:fastq|fq)(?:\.gz)?
MatchExtension(m) ==
    m \in {DotFastq, DotFq, DotFastq \o DotGz, DotFq \o DotGz}

\* A plausible slip: only the first read direction is recognised.
MatchReadR1Only(m) == m = R1_001

\* _R[12]_001
MatchRead(m) == m \in {R1_001, R2_001}

\* _L\d+
MatchLane(m) ==
    /\ Len(m) >= 3
    /\ m[1] = "_" /\ m[2] = "L"
    /\ \A k \in 3..Len(m) : m[k] \in Digits

\* _S\d+
MatchIndex(m) ==
    /\ Len(m) >= 3
    /\ m[1] = "_" /\ m[2] = "S"
    /\ \A k \in 3..Len(m) : m[k] \in Digits

\* The positions at which $ matches: the end of the string and, when the
\* string ends with a line feed, the position just before that line feed.
DollarEnds(s) ==
    {Len(s)} \cup (IF Len(s) > 0 /\ s[Len(s)] = NL THEN {Len(s) - 1} ELSE {})

\* Whether the text m is matched by the named pattern, its final $ left out.
Matches(pattern, m) ==
    CASE pattern = "extension" -> MatchExtension(m)
      [] pattern = "read"      -> MatchRead(m)
      [] pattern = "lane"      -> MatchLane(m)
      [] pattern = "index"     -> MatchIndex(m)

\* re.sub(pattern, replacement, s) for a pattern that ends with $ and the
\* empty replacement: the leftmost match is removed.  None of the four
\* patterns matches the empty string or a line feed, so no second match can
\* follow the first one.
re_sub(pattern, s) ==
    LET found == {m \in (0..Len(s)) \X DollarEnds(s) :
                     m[1] < m[2] /\ Matches(pattern, Slice(s, m[1], m[2]))}
    IN  IF found = {} THEN s
        ELSE LET m == CHOOSE x \in found : \A y \in found : x[1] <= y[1]
             IN  Slice(s, 0, m[1]) \o Slice(s, m[2], Len(s))

\* get_sample_id(filename), as one expression.
get_sample_id(x) ==
    re_sub("index", re_sub("lane", re_sub("read", re_sub("extension", x))))

(***************************************************************************)
(* Inputs of get_sample_id: every concatenation of at most MaxPieces       *)
(* pieces, and the file names the specification gives as examples.         *)
(***************************************************************************)
MaxPieces == 4

Pieces ==
    { <<"A">>, <<"1">>, <<NL>>,
      <<"_", "S", "1">>, <<"_", "L", "1">>,
      R1_001, R2_001, DotFastq, DotFq, DotGz }

RECURSIVE Concats(_)
Concats(n) ==
    IF n = 0 THEN {<<>>}
    ELSE LET P == Concats(n - 1) IN P \cup {p \o q : p \in P, q \in Pieces}

S1_L001 == <<"S", "1", "_", "L", "0", "0", "1">>

Examples ==
    { S1_L001 \o R1_001 \o DotFastq \o DotGz,
      S1_L001 \o R2_001 \o DotFastq \o DotGz,
      <<"A", "_", "S", "1", "_", "L", "1">> \o R1_001 \o DotFq \o DotGz,
      <<"A", "_", "S", "1", "_", "L", "1">> \o R2_001 \o DotFastq }

Filenames == Concats(MaxPieces) \cup Examples

(***************************************************************************)
(* get_sample_id, statement by statement                                   *)
(***************************************************************************)
\* files = {}
EmptyDict == [k \in {} |-> <<>>]

IdIdle == filename = <<>> /\ basename = Unassigned

MmIdle ==
    /\ tree = {} /\ walk = <<>> /\ r = Unassigned
    /\ f = {} /\ files = EmptyDict /\ of = <<>>

DmIdle ==
    /\ ids = <<>> /\ pairs = <<>> /\ cdist = <<>>
    /\ calls = <<>> /\ idx = <<>> /\ ax = <<>>

\* A data frame: the column names, the row labels, and the rows of cells.
Frame(columns, index, cells) == [columns |-> columns, index |-> index, cells |-> cells]

\* None of Python.
None == <<"None">>

\* The default values of the other arguments of the two taxa functions.
DefaultArguments ==
    /\ by = <<>> /\ count = 0 /\ exclude_samples = <<>>
    /\ exclude_taxa = <<>> /\ sample_names = <<>>
    /\ sort_by_names = FALSE /\ hide_xlabels = FALSE
    /\ csv_file = None /\ xlabels = None

\* Nothing drawn, no tick label, no file written yet.
NothingOut ==
    /\ mf = Frame(<<>>, <<>>, <<>>) /\ drawn = <<>>
    /\ xticklabels = <<>> /\ disk = EmptyDict

OpIdle ==
    /\ callee = "" /\ option = "" /\ archive = {} /\ as_object = FALSE
    /\ scratch = "" /\ tmp = EmptyDict /\ held = {} /\ loaded = ""
    /\ canvas = <<>> /\ error = <<>> /\ ncalls = 0

TaIdle ==
    /\ csv = Frame(<<>>, <<>>, <<>>) /\ orders = <<>>
    /\ df = Frame(<<>>, <<>>, <<>>) /\ done = 0 /\ raised = <<>>
    /\ fn = "" /\ DefaultArguments /\ NothingOut

IdInit ==
    /\ pc = "gsi_strip_extension"
    /\ filename \in Filenames
    /\ basename = Unassigned
    /\ MmIdle
    /\ DmIdle
    /\ TaIdle
    /\ OpIdle

StripExtension ==
    /\ pc = "gsi_strip_extension"
    /\ basename' = re_sub("extension", filename)
    /\ pc' = "gsi_strip_read"
    /\ UNCHANGED <<filename, notId>>

StripRead ==
    /\ pc = "gsi_strip_read"
    /\ basename' = re_sub("read", basename)
    /\ pc' = "gsi_strip_lane"
    /\ UNCHANGED <<filename, notId>>

StripLane ==
    /\ pc = "gsi_strip_lane"
    /\ basename' = re_sub("lane", basename)
    /\ pc' = "gsi_strip_index"
    /\ UNCHANGED <<filename, notId>>

StripIndex ==
    /\ pc = "gsi_strip_index"
    /\ basename' = re_sub("index", basename)
    /\ pc' = "gsi_return"
    /\ UNCHANGED <<filename, notId>>

IdNext == StripExtension \/ StripRead \/ StripLane \/ StripIndex

IdSpec == IdInit /\ [][IdNext]_vars

(***************************************************************************)
(* Claims about get_sample_id                                              *)
(***************************************************************************)
Extensions == {DotFastq, DotFq, DotFastq \o DotGz, DotFq \o DotGz}
ReadMarkers == {R1_001, R2_001}

EndsWith(s, t) == Len(t) <= Len(s) /\ Slice(s, Len(s) - Len(t), Len(s)) = t

\* s without its last n characters.
DropLast(s, n) == Slice(s, 0, Len(s) - n)

OtherRead(mark) == IF mark = R1_001 THEN R2_001 ELSE R1_001

\* The file names that differ from fname only in the read-direction marker that
\* directly precedes the extension.
Mates(fname) ==
    {DropLast(fname, Len(mark) + Len(e)) \o OtherRead(mark) \o e :
        <<mark, e>> \in {x \in ReadMarkers \X Extensions : EndsWith(fname, x[1] \o x[2])}}

\* C1: the forward and the reverse file of a pair get the same sample
\* identifier: whenever get_sample_id returns for b + _R1_001 + e (or
\* b + _R2_001 + e), e a recognized extension, the value returned is the one
\* get_sample_id gives for the file name with the other read marker.
C1_PairedReadsSameId ==
    pc = "gsi_return" =>
        \A m \in Mates(filename) : get_sample_id(m) = basename

C1_Witness ==
    /\ pc = "gsi_return"
    /\ filename = S1_L001 \o R2_001 \o DotFastq \o DotGz
    /\ S1_L001 \o R1_001 \o DotFastq \o DotGz \in Mates(filename)
    /\ basename = <<"S", "1">>

\* The reference procedure of the claim: a marker is removed only when it is
\* the very end of the string.
LaneMarker(m) ==
    Len(m) >= 3 /\ m[1] = "_" /\ m[2] = "L" /\ \A k \in 3..Len(m) : m[k] \in Digits
IndexMarker(m) ==
    Len(m) >= 3 /\ m[1] = "_" /\ m[2] = "S" /\ \A k \in 3..Len(m) : m[k] \in Digits
ExtensionMarker(m) == m \in Extensions
ReadMarker(m) == m \in ReadMarkers

IsMarker(kind, m) ==
    CASE kind = "extension" -> ExtensionMarker(m)
      [] kind = "read"      -> ReadMarker(m)
      [] kind = "lane"      -> LaneMarker(m)
      [] kind = "index"     -> IndexMarker(m)

\* s without the marker it ends with, the longest one if there are several.
RemoveTrailing(kind, s) ==
    LET ks == {k \in 0..(Len(s) - 1) : IsMarker(kind, Slice(s, k, Len(s)))}
    IN  IF ks = {} THEN s
        ELSE Slice(s, 0, CHOOSE k \in ks : \A j \in ks : k <= j)

Reference(fname) ==
    RemoveTrailing("index",
        RemoveTrailing("lane",
            RemoveTrailing("read",
                RemoveTrailing("extension", fname))))

\* C5: for every file name get_sample_id returns what the reference
\* procedure gives (extension, then read marker, then lane marker, then
\* sample-index marker, each removed at most once from the end), the result
\* is a prefix of the input, and both example names give S1.
C5_EqualsReference ==
    pc = "gsi_return" =>
        /\ basename = Reference(filename)
        /\ IsPrefix(basename, filename)
        /\ filename \in {S1_L001 \o R1_001 \o DotFastq \o DotGz,
                         S1_L001 \o R2_001 \o DotFastq \o DotGz}
               => basename = <<"S", "1">>

\* C5, on the file names that contain no line feed: there the code and the
\* reference procedure agree.
C5_EqualsReferenceWithoutLineFeed ==
    (pc = "gsi_return" /\ ~Contains(filename, <<NL>>)) =>
        /\ basename = Reference(filename)
        /\ IsPrefix(basename, filename)

\* The names <name> for which fname is <name>[_S<digits>][_L<digits>]<read><ext>.
FormNames(fname) ==
    UNION { LET t == DropLast(fname, Len(x[1]) + Len(x[2]))
            IN  {Slice(t, 0, a) : a \in
                    {a \in 0..Len(t) : \E b \in a..Len(t) :
                        /\ (b = a \/ IndexMarker(Slice(t, a, b)))
                        /\ (b = Len(t) \/ LaneMarker(Slice(t, b, Len(t))))}}
          : x \in {x \in ReadMarkers \X Extensions : EndsWith(fname, x[1] \o x[2])} }

\* C6 as claimed: for every file name of the form
\* <name>[_S<digits>][_L<digits>]<read marker><extension>, whatever <name>
\* is, applying get_sample_id to its own result changes nothing.
C6_IdempotentAnyName ==
    (pc = "gsi_return" /\ FormNames(filename) # {}) =>
        get_sample_id(basename) = basename

\* C6 as amended: for every file name of that form whose <name> is itself
\* left unchanged by get_sample_id (so that <name> ends with no extension,
\* read marker, lane marker or sample-index marker that a step would strip),
\* applying get_sample_id to its own result changes nothing.
C6_IdempotentOnCleanName ==
    pc = "gsi_return" =>
        \A name \in FormNames(filename) :
            get_sample_id(name) = name => get_sample_id(basename) = basename

C6_Witness ==
    /\ pc = "gsi_return"
    /\ filename = <<"A", "_", "S", "1", "_", "L", "1">> \o R1_001 \o DotFq \o DotGz
    /\ <<"A">> \in FormNames(filename)
    /\ get_sample_id(<<"A">>) = <<"A">>
    /\ basename = <<"A">>

(***************************************************************************)
(* make_manifest                                                           *)
(***************************************************************************)
Undetermined == <<"U", "n", "d", "e", "t", "e", "r", "m", "i", "n", "e", "d">>

\* A plausible slip: the marker spelled in lower case.
IsUndeterminedLowerCase(x) ==
    Contains(x, <<"u", "n", "d", "e", "t", "e", "r", "m", "i", "n", "e", "d">>)

\* 'Undetermined' in x
IsUndetermined(x) == Contains(x, Undetermined)

\* '_R1_001.fastq' in x
IsForward(x) == Contains(x, R1_001 \o DotFastq)

\* '_R2_001.fastq' in x
IsReverse(x) == Contains(x, R2_001 \o DotFastq)

\* f"{r}/{x}"
Path(dir, x) == dir \o <<"/">> \o x

\* The code points of the printable characters, in increasing order after
\* the tabulator and the line feed.
CodePoints ==
    << TAB, NL,
       " ", "!", "#", "$", "%", "&", "(", ")", "*", "+", ",", "-", ".",
       "/", "0", "1", "2", "3", "4", "5", "6", "7", "8", "9", ":", ";", "<",
       "=", ">", "?", "@", "A", "B", "C", "D", "E", "F", "G", "H", "I", "J",
       "K", "L", "M", "N", "O", "P", "Q", "R", "S", "T", "U", "V", "W", "X",
       "Y", "Z", "[", "]", "^", "_", "a", "b", "c", "d", "e", "f", "g",
       "h", "i", "j", "k", "l", "m", "n", "o", "p", "q", "r", "s", "t", "u",
       "v", "w", "x", "y", "z", "{", "|", "}", "~" >>

\* ord(c), up to an increasing renumbering.
Ord(c) == CHOOSE k \in 1..Len(CodePoints) : CodePoints[k] = c

\* a < b of str: the first differing character decides, a proper prefix is
\* smaller.
StrLess(a, b) ==
    \E k \in 1..Len(b) :
        /\ k <= Len(a) + 1
        /\ SubSeq(a, 1, k - 1) = SubSeq(b, 1, k - 1)
        /\ (k = Len(a) + 1 \/ Ord(a[k]) < Ord(b[k]))

\* A plausible slip: sorted(files, reverse=True).
RECURSIVE sorted_descending(_)
sorted_descending(S) ==
    IF S = {} THEN <<>>
    ELSE LET top == CHOOSE a \in S : \A b \in S \ {a} : StrLess(b, a)
         IN  <<top>> \o sorted_descending(S \ {top})

\* sorted(S), S a set of strings.
RECURSIVE sorted(_)
sorted(S) ==
    IF S = {} THEN <<>>
    ELSE LET least == CHOOSE a \in S : \A b \in S \ {a} : StrLess(a, b)
         IN  <<least>> \o sorted(S \ {least})

\* The join of the fields with a tabulator between them.
RECURSIVE join(_)
join(fields) ==
    IF Len(fields) = 0 THEN <<>>
    ELSE IF Len(fields) = 1 THEN fields[1]
    ELSE fields[1] \o <<TAB>> \o join(Tail(fields))

headers ==
    << <<"s", "a", "m", "p", "l", "e", "-", "i", "d">>,
       <<"f", "o", "r", "w", "a", "r", "d", "-", "a", "b", "s", "o", "l", "u",
         "t", "e", "-", "f", "i", "l", "e", "p", "a", "t", "h">>,
       <<"r", "e", "v", "e", "r", "s", "e", "-", "a", "b", "s", "o", "l", "u",
         "t", "e", "-", "f", "i", "l", "e", "p", "a", "t", "h">> >>

\* The directories of the walked tree: fastq_dir, resolved to an absolute
\* path, and one directory below it.  os.walk yields a directory before the
\* directories below it.
TopDir == <<"/", "d">>
SubDir == TopDir \o <<"/", "s">>
WalkOrder == <<TopDir, SubDir>>

\* The file names a tree may hold.
Names ==
    { <<"A">> \o R1_001 \o DotFastq \o DotGz,
      <<"A">> \o R2_001 \o DotFastq \o DotGz,
      <<"B">> \o R1_001 \o DotFastq \o DotGz,
      Undetermined \o R1_001 \o DotFastq \o DotGz,
      <<"B">> \o R2_001 \o DotFq \o DotGz,
      <<"A", "_", "L", "1">> \o R1_001 \o DotFastq,
      <<"u", "n", "d", "e", "t", "e", "r", "m", "i", "n", "e", "d">>
          \o R2_001 \o DotFastq }

MaxFiles == 4

RECURSIVE SubsetsUpTo(_, _)
SubsetsUpTo(S, n) ==
    IF n = 0 THEN {{}}
    ELSE LET P == SubsetsUpTo(S, n - 1) IN P \cup {p \cup {x} : p \in P, x \in S}

Trees == SubsetsUpTo({TopDir, SubDir} \X Names, MaxFiles)

MmInit ==
    /\ pc = "mm_walk"
    /\ tree \in Trees
    /\ walk = WalkOrder
    /\ r = Unassigned
    /\ f = {}
    /\ files = EmptyDict
    /\ of = <<>>
    /\ IdIdle
    /\ DmIdle
    /\ TaIdle
    /\ OpIdle

\* for r, d, f in os.walk(fastq_dir): the next directory and its files.
WalkNext ==
    /\ pc = "mm_walk"
    /\ f = {}
    /\ walk # <<>>
    /\ r' = Head(walk)
    /\ f' = {t[2] : t \in {t \in tree : t[1] = Head(walk)}}
    /\ walk' = Tail(walk)
    /\ UNCHANGED <<pc, tree, files, of, notMm>>

\* files[name] after files[name][column] = path, the entry being created
\* with two empty strings first when name is new.
Record(name, column, path) ==
    LET old == IF name \in DOMAIN files THEN files[name] ELSE <<<<>>, <<>>>>
    IN  [k \in DOMAIN files \cup {name} |->
            IF k = name THEN [old EXCEPT ![column] = path] ELSE files[k]]

\* The loop body for a file whose name contains 'Undetermined': continue.
SkipUndetermined ==
    /\ pc = "mm_walk"
    /\ \E x \in f :
        /\ IsUndetermined(x)
        /\ f' = f \ {x}
    /\ UNCHANGED <<pc, tree, walk, r, files, of, notMm>>

\* The loop body for a file whose name contains '_R1_001.fastq'.
RecordForward ==
    /\ pc = "mm_walk"
    /\ \E x \in f :
        /\ ~IsUndetermined(x)
        /\ IsForward(x)
        /\ files' = Record(get_sample_id(x), 1, Path(r, x))
        /\ f' = f \ {x}
    /\ UNCHANGED <<pc, tree, walk, r, of, notMm>>

\* The loop body for a file whose name contains '_R2_001.fastq'.
RecordReverse ==
    /\ pc = "mm_walk"
    /\ \E x \in f :
        /\ ~IsUndetermined(x)
        /\ ~IsForward(x)
        /\ IsReverse(x)
        /\ files' = Record(get_sample_id(x), 2, Path(r, x))
        /\ f' = f \ {x}
    /\ UNCHANGED <<pc, tree, walk, r, of, notMm>>

\* The loop body for any other file: pass.
IgnoreOther ==
    /\ pc = "mm_walk"
    /\ \E x \in f :
        /\ ~IsUndetermined(x)
        /\ ~IsForward(x)
        /\ ~IsReverse(x)
        /\ f' = f \ {x}
    /\ UNCHANGED <<pc, tree, walk, r, files, of, notMm>>

\* The lines written after the header, one per key in sorted order.
RowLines(keys) ==
    [k \in 1..Len(keys) |->
        join(<<keys[k], files[keys[k]][1], files[keys[k]][2]>>) \o <<NL>>]

\* with open(output_file, 'w') as of: the header, then the rows.
WriteManifest ==
    /\ pc = "mm_walk"
    /\ f = {}
    /\ walk = <<>>
    /\ of' = <<join(headers) \o <<NL>>>> \o RowLines(sorted(DOMAIN files))
    /\ pc' = "mm_done"
    /\ UNCHANGED <<tree, walk, r, f, files, notMm>>

MmNext ==
    \/ WalkNext
    \/ SkipUndetermined
    \/ RecordForward
    \/ RecordReverse
    \/ IgnoreOther
    \/ WriteManifest

MmSpec == MmInit /\ [][MmNext]_vars

(***************************************************************************)
(* Claims about make_manifest                                              *)
(***************************************************************************)
\* The fields of a written line: the line without its final line feed, cut
\* at every tabulator.
RECURSIVE Cut(_)
Cut(s) ==
    LET tabs == {k \in 1..Len(s) : s[k] = TAB}
    IN  IF tabs = {} THEN <<s>>
        ELSE LET k == CHOOSE a \in tabs : \A b \in tabs : a <= b
             IN  <<SubSeq(s, 1, k - 1)>> \o Cut(SubSeq(s, k + 1, Len(s)))

Fields(line) == Cut(DropLast(line, 1))

\* The data rows of the written manifest, as their fields.
Rows == [k \in 1..(Len(of) - 1) |-> Fields(of[k + 1])]

HeaderLine ==
    <<"s", "a", "m", "p", "l", "e", "-", "i", "d", TAB,
      "f", "o", "r", "w", "a", "r", "d", "-", "a", "b", "s", "o", "l", "u",
      "t", "e", "-", "f", "i", "l", "e", "p", "a", "t", "h", TAB,
      "r", "e", "v", "e", "r", "s", "e", "-", "a", "b", "s", "o", "l", "u",
      "t", "e", "-", "f", "i", "l", "e", "p", "a", "t", "h", NL>>

HasUndetermined(x) ==
    \E k \in 1..(Len(x) - 11) : SubSeq(x, k, k + 11) = Undetermined

\* The paths of the files of the tree whose name does not contain
\* Undetermined.
DeterminedPaths == {t[1] \o <<"/">> \o t[2] : t \in {t \in tree : ~HasUndetermined(t[2])}}

\* The tree of the example: four files in fastq_dir itself.
ExampleTree ==
    {TopDir} \X { <<"A">> \o R1_001 \o DotFastq \o DotGz,
                  <<"A">> \o R2_001 \o DotFastq \o DotGz,
                  <<"B">> \o R1_001 \o DotFastq \o DotGz,
                  Undetermined \o R1_001 \o DotFastq \o DotGz }

ExampleManifest ==
    << HeaderLine,
       <<"A", TAB>> \o TopDir \o <<"/", "A">> \o R1_001 \o DotFastq \o DotGz
           \o <<TAB>> \o TopDir \o <<"/", "A">> \o R2_001 \o DotFastq \o DotGz
           \o <<NL>>,
       <<"B", TAB>> \o TopDir \o <<"/", "B">> \o R1_001 \o DotFastq \o DotGz
           \o <<TAB, NL>> >>

\* C2: no file whose name contains Undetermined is ever recorded or written:
\* every path held in the dictionary, and every forward or reverse path of
\* the written manifest, is empty or the path of a file whose name does not
\* contain Undetermined; every row has at least one such path, so no row
\* exists because of an Undetermined file alone; and for the example tree
\* the manifest is the header, the row of A with both paths and the row of B
\* with the forward path only.
C2_UndeterminedExcluded ==
    /\ \A name \in DOMAIN files :
          /\ files[name][1] \in DeterminedPaths \cup {<<>>}
          /\ files[name][2] \in DeterminedPaths \cup {<<>>}
    /\ pc = "mm_done" =>
          /\ \A k \in 1..Len(Rows) :
                /\ Len(Rows[k]) = 3
                /\ Rows[k][2] \in DeterminedPaths \cup {<<>>}
                /\ Rows[k][3] \in DeterminedPaths \cup {<<>>}
                /\ Rows[k][2] # <<>> \/ Rows[k][3] # <<>>
          /\ tree = ExampleTree => of = ExampleManifest

C2_Witness ==
    /\ pc = "mm_done"
    /\ tree = ExampleTree
    /\ Len(of) = 3

\* The read files of the claim: the name ends with a read marker followed
\* by a recognized extension.
IsReadFile(x, mark) == \E e \in Extensions : EndsWith(x, mark \o e)

\* The paths of the files of the tree that are not Undetermined, have the
\* sample identifier id and the read marker mark.
PathsOf(id, mark) ==
    {t[1] \o <<"/">> \o t[2] :
        t \in {t \in tree : /\ ~HasUndetermined(t[2])
                            /\ IsReadFile(t[2], mark)
                            /\ get_sample_id(t[2]) = id}}

\* C3: every file that is not Undetermined and whose name ends with
\* _R1_001 or _R2_001 followed by .fastq, .fq, .fastq.gz or .fq.gz has a
\* row under its sample identifier, whose forward (reverse) column holds
\* the path of a forward (reverse) file of that sample; a sample without a
\* file of one direction has the empty string in that column.
C3_EveryReadFileRecorded ==
    pc = "mm_done" =>
        \A t \in tree : \A col \in {1, 2} :
            LET mark == IF col = 1 THEN R1_001 ELSE R2_001
                other == IF col = 1 THEN R2_001 ELSE R1_001
                id == get_sample_id(t[2])
            IN  (~HasUndetermined(t[2]) /\ IsReadFile(t[2], mark)) =>
                    \E k \in 1..Len(Rows) :
                        /\ Len(Rows[k]) = 3
                        /\ Rows[k][1] = id
                        /\ Rows[k][col + 1] \in PathsOf(id, mark)
                        /\ PathsOf(id, other) = {} => Rows[k][4 - col] = <<>>

\* C3, for the files with the extension .fastq or .fastq.gz only.
C3_EveryFastqReadFileRecorded ==
    pc = "mm_done" =>
        \A t \in tree : \A col \in {1, 2} :
            LET mark == IF col = 1 THEN R1_001 ELSE R2_001
                id == get_sample_id(t[2])
            IN  (/\ ~HasUndetermined(t[2])
                 /\ \E e \in {DotFastq, DotFastq \o DotGz} : EndsWith(t[2], mark \o e)) =>
                    \E k \in 1..Len(Rows) :
                        /\ Len(Rows[k]) = 3
                        /\ Rows[k][1] = id
                        /\ Rows[k][col + 1] \in PathsOf(id, mark)

\* The sample identifiers of the files the walk records.
RecordedIds ==
    {get_sample_id(t[2]) :
        t \in {t \in tree : /\ ~HasUndetermined(t[2])
                            /\ \E k \in 0..Len(t[2]), mark \in ReadMarkers :
                                  IsPrefix(mark \o DotFastq,
                                           SubSeq(t[2], k + 1, Len(t[2])))}}

\* C4: the written manifest starts with the fixed header line, also when
\* nothing was recorded; then comes exactly one row for every distinct
\* sample identifier, of three fields with the identifier first; and the
\* identifiers are in strictly increasing lexicographic order.
C4_HeaderAndSortedRows ==
    pc = "mm_done" =>
        /\ Len(of) >= 1
        /\ of[1] = HeaderLine
        /\ Len(Rows) = Cardinality(RecordedIds)
        /\ {Rows[k][1] : k \in 1..Len(Rows)} = RecordedIds
        /\ \A k \in 1..Len(Rows) :
              /\ Len(Rows[k]) = 3
              /\ of[k + 1][Len(of[k + 1])] = NL
        /\ \A k \in 1..(Len(Rows) - 1) : StrLess(Rows[k][1], Rows[k + 1][1])

C4_Witness ==
    /\ pc = "mm_done"
    /\ Len(of) = 4
    /\ Rows[1][1] = <<"A">>
    /\ Rows[2][1] = <<"B">>
    /\ Rows[3][1] = <<"u", "n", "d", "e", "t", "e", "r", "m", "i", "n", "e", "d">>

\* C4 when nothing was recorded: the header alone.
C4_WitnessEmpty ==
    /\ pc = "mm_done"
    /\ tree # {}
    /\ of = <<HeaderLine>>

\* One order in which the walk may visit the files of the tree: the
\* directories as os.walk yields them, the files of a directory in the
\* order of their names.
RECURSIVE VisitInNameOrder(_)
VisitInNameOrder(dirs) ==
    IF dirs = <<>> THEN <<>>
    ELSE LET names == sorted({x[2] : x \in {x \in tree : x[1] = Head(dirs)}})
         IN  [m \in 1..Len(names) |-> <<Head(dirs), names[m]>>]
                 \o VisitInNameOrder(Tail(dirs))

\* The path a visit leaves in the column col of the sample id: that of the
\* last file of the sample and the direction, the empty string without one.
LeftBy(visit, id, col) ==
    LET hits == {m \in 1..Len(visit) :
                    /\ ~HasUndetermined(visit[m][2])
                    /\ IF col = 1 THEN IsForward(visit[m][2])
                       ELSE ~IsForward(visit[m][2]) /\ IsReverse(visit[m][2])
                    /\ get_sample_id(visit[m][2]) = id}
    IN  IF hits = {} THEN <<>>
        ELSE LET last == CHOOSE m \in hits : \A q \in hits : q <= m
             IN  visit[last][1] \o <<"/">> \o visit[last][2]

\* The file name of a path: what follows its last slash.
NameOfPath(path) ==
    LET slashes == {m \in 1..Len(path) : path[m] = "/"}
    IN  SubSeq(path, (CHOOSE m \in slashes : \A q \in slashes : q <= m) + 1, Len(path))

\* C17: the manifest is determined by the set of files alone.  Whatever
\* order the walk took, the rows written are those the walk in the order of
\* the names writes, also when several files give the same sample
\* identifier and direction; and in every row with both paths the forward
\* and the reverse file name differ only in the read-direction marker.
C17_ManifestDeterminedByFiles ==
    pc = "mm_done" =>
        \A k \in 1..Len(Rows) :
            /\ Len(Rows[k]) = 3
            /\ Rows[k][2] = LeftBy(VisitInNameOrder(WalkOrder), Rows[k][1], 1)
            /\ Rows[k][3] = LeftBy(VisitInNameOrder(WalkOrder), Rows[k][1], 2)
            /\ (Rows[k][2] # <<>> /\ Rows[k][3] # <<>>) =>
                  NameOfPath(Rows[k][3]) \in Mates(NameOfPath(Rows[k][2]))

\* C17, for the trees in which no two files give the same sample
\* identifier and direction: there the order of the walk does not matter.
C17_ManifestDeterminedWithoutCollision ==
    (pc = "mm_done"
        /\ \A x, y \in tree :
              (/\ x # y
               /\ ~HasUndetermined(x[2]) /\ ~HasUndetermined(y[2])
               /\ get_sample_id(x[2]) = get_sample_id(y[2])
               /\ \/ IsForward(x[2]) /\ IsForward(y[2])
                  \/ ~IsForward(x[2]) /\ IsReverse(x[2])
                        /\ ~IsForward(y[2]) /\ IsReverse(y[2])) => FALSE)
    => \A k \in 1..Len(Rows) :
            /\ Len(Rows[k]) = 3
            /\ Rows[k][2] = LeftBy(VisitInNameOrder(WalkOrder), Rows[k][1], 1)
            /\ Rows[k][3] = LeftBy(VisitInNameOrder(WalkOrder), Rows[k][1], 2)

(***************************************************************************)
(* distance_matrix_plot                                                    *)
(***************************************************************************)
MaxN == 4
MaxPairs == 2

\* The two ways a call ends: it returns a value, or its assert statement
\* fails and raises.
Returned(v) == <<"return", v>>
AssertionError == <<"AssertionError">>

\* A plausible slip: the arguments are not put in order first.
square_to_condensed_unordered(i, j, n) ==
    IF i = j THEN AssertionError
    ELSE Returned(n * j - (j * (j + 1)) \div 2 + i - 1 - j)

\* A plausible slip: the triangle term with the wrong sign.
square_to_condensed_wrong_term(i, j, n) ==
    IF i = j THEN AssertionError
    ELSE LET hi == IF i < j THEN j ELSE i
             lo == IF i < j THEN i ELSE j
         IN  Returned(n * lo - (lo * (lo - 1)) \div 2 + hi - 1 - lo)

\* square_to_condensed(i, j, n): the assert, the swap, the formula.
square_to_condensed(i, j, n) ==
    IF i = j THEN AssertionError
    ELSE LET hi == IF i < j THEN j ELSE i
             lo == IF i < j THEN i ELSE j
         IN  Returned(n * lo - (lo * (lo + 1)) \div 2 + hi - 1 - lo)

\* The sample identifiers of a matrix of size n.
SampleIds(n) == [k \in 1..n |-> <<"sample", k>>]

\* dist.index(id): the 0-based position of id in dist.ids.
index(id) == (CHOOSE k \in 1..Len(ids) : ids[k] = id) - 1

\* The distance the matrix file holds for the samples at positions a and b:
\* symmetric, zero on the diagonal, and different for different pairs.
Distance(a, b) ==
    IF a = b THEN 0
    ELSE IF a < b THEN 10 * (a + 1) + (b + 1) ELSE 10 * (b + 1) + (a + 1)

\* dist.condensed_form(): the entries above the diagonal, row after row.
condensed_form(n) ==
    LET upper == {p \in (0..(n - 1)) \X (0..(n - 1)) : p[1] < p[2]}
        before(p) == {q \in upper : q[1] < p[1] \/ (q[1] = p[1] /\ q[2] < p[2])}
    IN  [k \in 1..Cardinality(upper) |->
            LET p == CHOOSE p \in upper : Cardinality(before(p)) = k - 1
            IN  Distance(p[1], p[2])]

RECURSIVE SeqsUpTo(_, _)
SeqsUpTo(S, n) ==
    IF n = 0 THEN {<<>>}
    ELSE LET P == SeqsUpTo(S, n - 1) IN P \cup {Append(p, x) : p \in P, x \in S}

DmInit ==
    /\ pc = "dmp_load"
    /\ \E n \in 1..MaxN :
        /\ ids = SampleIds(n)
        /\ pairs \in SeqsUpTo({SampleIds(n)[a] : a \in 1..n}
                                 \X {SampleIds(n)[a] : a \in 1..n}, MaxPairs)
    /\ cdist = <<>>
    /\ calls = <<>>
    /\ idx = <<>>
    /\ ax = <<>>
    /\ IdIdle
    /\ MmIdle
    /\ TaIdle
    /\ OpIdle

\* The matrix is read and brought into condensed form.
DmLoad ==
    /\ pc = "dmp_load"
    /\ cdist' = condensed_form(Len(ids))
    /\ pc' = "dmp_hist"
    /\ UNCHANGED <<ids, pairs, calls, idx, ax, notDm>>

\* ax.hist(cdist, bins=bins)
DmHist ==
    /\ pc = "dmp_hist"
    /\ ax' = Append(ax, <<"hist", cdist>>)
    /\ pc' = "dmp_pairs"
    /\ UNCHANGED <<ids, pairs, cdist, calls, idx, notDm>>

\* cdist[i]: the entry at position i, a negative i counting from the end;
\* a position outside the array raises IndexError.
InRange(i) == -Len(cdist) <= i /\ i < Len(cdist)
cdist_item(i) == IF i >= 0 THEN cdist[i + 1] ELSE cdist[Len(cdist) + i + 1]

\* One round of the loop over pairs, for a pair of two different samples:
\* the index is computed and the distance stored there is appended to idx.
DmPairIndex ==
    /\ pc = "dmp_pairs"
    /\ Len(calls) < Len(pairs)
    /\ LET pair == pairs[Len(calls) + 1]
           i == index(pair[1])
           j == index(pair[2])
           n == Len(ids)
           res == square_to_condensed(i, j, n)
       IN  /\ res # AssertionError
           /\ calls' = Append(calls, <<i, j, n, res>>)
           /\ IF InRange(res[2])
              THEN idx' = Append(idx, cdist_item(res[2])) /\ pc' = pc
              ELSE idx' = idx /\ pc' = "dmp_raised"
    /\ UNCHANGED <<ids, pairs, cdist, ax, notDm>>

\* One round of the loop over pairs, for a pair of a sample with itself: the
\* assert fails and the AssertionError ends distance_matrix_plot.
DmPairAssert ==
    /\ pc = "dmp_pairs"
    /\ Len(calls) < Len(pairs)
    /\ LET pair == pairs[Len(calls) + 1]
           i == index(pair[1])
           j == index(pair[2])
           n == Len(ids)
           res == square_to_condensed(i, j, n)
       IN  /\ res = AssertionError
           /\ calls' = Append(calls, <<i, j, n, res>>)
    /\ pc' = "dmp_raised"
    /\ UNCHANGED <<ids, pairs, cdist, idx, ax, notDm>>

\* One round of the loop over idx: ax.axvline(x=i, c='red').
DmAxvline ==
    /\ pc = "dmp_pairs"
    /\ Len(calls) = Len(pairs)
    /\ Len(ax) - 1 < Len(idx)
    /\ ax' = Append(ax, <<"axvline", idx[Len(ax)]>>)
    /\ UNCHANGED <<pc, ids, pairs, cdist, calls, idx, notDm>>

\* distance_matrix_plot returns.
DmReturn ==
    /\ pc = "dmp_pairs"
    /\ Len(calls) = Len(pairs)
    /\ Len(ax) - 1 = Len(idx)
    /\ pc' = "dmp_return"
    /\ UNCHANGED <<dmVars, notDm>>

DmNext ==
    \/ DmLoad
    \/ DmHist
    \/ DmPairIndex
    \/ DmPairAssert
    \/ DmAxvline
    \/ DmReturn

DmSpec == DmInit /\ [][DmNext]_vars

(***************************************************************************)
(* Claims about square_to_condensed                                        *)
(***************************************************************************)
\* C7: square_to_condensed does not depend on the order of its two
\* positions and rejects the diagonal: a call with i # j returned the index
\* that square_to_condensed gives for (j, i), two calls with swapped
\* positions returned the same index, and a call with i = j failed with an
\* AssertionError, which ended distance_matrix_plot before any index was
\* appended or any red line drawn for it.
C7_SymmetricAndRejectsDiagonal ==
    /\ \A k \in 1..Len(calls) :
          LET c == calls[k]
          IN  IF c[1] # c[2]
              THEN /\ c[4][1] = "return"
                   /\ c[4][2] \in Nat
                   /\ c[4] = square_to_condensed(c[2], c[1], c[3])
                   /\ \A m \in 1..Len(calls) :
                         (calls[m][1] = c[2] /\ calls[m][2] = c[1]) => calls[m][4] = c[4]
              ELSE /\ c[4] = AssertionError
                   /\ square_to_condensed(c[1], c[1], c[3]) = AssertionError
                   /\ k = Len(calls)
                   /\ pc = "dmp_raised"
                   /\ Len(idx) = k - 1
                   /\ \A a \in 1..Len(ax) : ax[a][1] # "axvline"
    /\ (ids = SampleIds(4) /\ pairs = <<<<ids[3], ids[1]>>, <<ids[1], ids[3]>>>>
           /\ Len(idx) = 2) => idx[1] = idx[2]

C7_Witness ==
    /\ ids = SampleIds(4)
    /\ calls = <<<<2, 0, 4, Returned(1)>>, <<0, 2, 4, Returned(1)>>>>
    /\ pc = "dmp_return"

\* C7, the diagonal: a call with i = j has raised.
C7_WitnessDiagonal ==
    /\ pc = "dmp_raised"
    /\ Len(calls) = 2
    /\ calls[2][1] = calls[2][2]
    /\ calls[2][4] = AssertionError

\* The pairs above the diagonal that come before (lo, hi) when the upper
\* triangle of a matrix of size n is read row after row.
PairsBefore(lo, hi, n) ==
    {q \in (0..(n - 1)) \X (0..(n - 1)) :
        q[1] < q[2] /\ (q[1] < lo \/ (q[1] = lo /\ q[2] < hi))}

\* C8: for two different positions the index returned is
\* n*b - b*(b+1)/2 + a - 1 - b with a the larger and b the smaller position,
\* is the place of the pair (b, a) in the row-by-row enumeration of the
\* upper triangle, lies in 0..n*(n-1)/2 - 1, and differs for different
\* unordered pairs; the value appended to idx, and the red line drawn from
\* it, is the distance the matrix holds for that pair.
C8_CondensedIndex ==
    /\ \A k \in 1..Len(calls) :
          LET c  == calls[k]
              hi == IF c[1] < c[2] THEN c[2] ELSE c[1]
              lo == IF c[1] < c[2] THEN c[1] ELSE c[2]
              n  == c[3]
              v  == c[4][2]
          IN  c[1] # c[2] =>
                /\ n >= 2
                /\ c[4][1] = "return"
                /\ 2 * v = 2 * n * lo - lo * (lo + 1) + 2 * hi - 2 - 2 * lo
                /\ v = Cardinality(PairsBefore(lo, hi, n))
                /\ 0 <= v /\ 2 * v <= n * (n - 1) - 2
                /\ \A m \in 1..Len(calls) :
                      (calls[m][1] # calls[m][2] /\ calls[m][4] = c[4]) =>
                          {calls[m][1], calls[m][2]} = {c[1], c[2]}
                /\ Len(idx) >= k
                /\ idx[k] = Distance(c[1], c[2])
    /\ \A a \in 2..Len(ax) :
          /\ ax[a][1] = "axvline"
          /\ ax[a][2] = Distance(index(pairs[a - 1][1]), index(pairs[a - 1][2]))
    /\ pc = "dmp_return" => Len(ax) = 1 + Len(pairs)

C8_Witness ==
    /\ pc = "dmp_return"
    /\ ids = SampleIds(4)
    /\ pairs = <<<<ids[4], ids[3]>>, <<ids[2], ids[4]>>>>
    /\ calls = <<<<3, 2, 4, Returned(5)>>, <<1, 3, 4, Returned(4)>>>>
    /\ ax[2] = <<"axvline", 34>>
    /\ ax[3] = <<"axvline", 24>>

(***************************************************************************)
(* taxa_abundance_bar_plot and taxa_abundance_box_plot: the table is read  *)
(* and the items of orders are gone through.  The two functions have the   *)
(* same statements here.                                                   *)
(***************************************************************************)
MaxSamples == 3
MaxOrderLen == 3

\* The values a cell of the column Site may hold, and one more value that a
\* list of orders may name.
SiteValues == {"a", "A", "b"}
OrderValues == SiteValues \cup {"c"}

\* The names of the two metadata columns of the file.
Site == <<"S", "i", "t", "e">>
Day == <<"D", "a", "y">>

\* The column Day of the file, row by row.
DayOfRow(k) == IF k % 2 = 1 THEN "y" ELSE "x"
DayLists == {<<"x", "y">>, <<"y", "x">>, <<"x">>}

\* The tables the file may hold: up to MaxSamples samples.
Tables ==
    UNION { { Frame(<<Site, Day>>,
                    [k \in 1..n |-> <<"sample", k>>],
                    [k \in 1..n |-> <<site[k], DayOfRow(k)>>])
              : site \in [1..n -> SiteValues] }
            : n \in 1..MaxSamples }

\* The dictionaries orders may be, as the sequences of their items.
Orders ==
    LET siteLists == SeqsUpTo(OrderValues, MaxOrderLen)
    IN  {<<>>}
        \cup {<<<<Site, v>>>> : v \in siteLists}
        \cup {<<<<Day, w>>>> : w \in DayLists}
        \cup {<<<<Site, v>>, <<Day, w>>>> : v \in siteLists, w \in DayLists}
        \cup {<<<<Day, w>>, <<Site, v>>>> : v \in siteLists, w \in DayLists}

\* The elements of a list, as a set.
set(list) == {list[k] : k \in 1..Len(list)}

\* The position of the column named k.
ColumnAt(frame, k) == CHOOSE c \in 1..Len(frame.columns) : frame.columns[c] = k

\* frame[k]: the cells of the column k, row by row.
Column(frame, k) == [row \in 1..Len(frame.cells) |-> frame.cells[row][ColumnAt(frame, k)]]

\* series.unique().tolist(): the values in the order of their first
\* appearance.
RECURSIVE unique(_)
unique(series) ==
    IF series = <<>> THEN <<>>
    ELSE LET front == unique(SubSeq(series, 1, Len(series) - 1))
             last == series[Len(series)]
         IN  IF last \in set(front) THEN front ELSE Append(front, last)

\* str.lower() of the one-letter values.
Lower(x) == IF x = "A" THEN "a" ELSE x

\* A plausible slip: the values compared without regard to case.
values_match_ignoring_case(u, v) ==
    {Lower(x) : x \in set(u)} = {Lower(x) : x \in set(v)}

\* not (set(u) != set(v))
values_match(u, v) == set(u) = set(v)

\* The message of the ValueError, as the pieces the f-string puts together:
\* the fixed texts, the two lists and the column name.
Message(u, v, k) ==
    << <<"Target values ">>, u, <<" not matched with user-provided values ">>, v,
       <<" for metadata column ">>, <<k>> >>

\* What Series.map gives for a value that is no key of the dictionary.
NaN == "NaN"

\* Series.map(dict(zip(v, l))) for one value x: the last position of x in v,
\* counted from 0.
PositionIn(v, x) ==
    IF x \in set(v)
    THEN (CHOOSE p \in 1..Len(v) : v[p] = x /\ \A q \in (p + 1)..Len(v) : v[q] # x) - 1
    ELSE NaN

\* The name of the temporary column that keeps the original values.
Temporary(k) == <<"@">> \o k

\* df.rename(columns={k: Temporary(k)}) and then df[k] = the positions: the
\* original column keeps its place under the temporary name, the column of
\* positions is added last under the name k.
MapColumn(frame, k, v) ==
    LET c == ColumnAt(frame, k)
    IN  Frame(Append([frame.columns EXCEPT ![c] = Temporary(k)], k),
              frame.index,
              [row \in 1..Len(frame.cells) |->
                  Append(frame.cells[row], PositionIn(v, frame.cells[row][c]))])

TaInit ==
    /\ pc = "tab_load"
    /\ csv \in Tables
    /\ orders \in Orders
    /\ df = Frame(<<>>, <<>>, <<>>)
    /\ done = 0
    /\ raised = <<>>
    /\ fn \in {"taxa_abundance_bar_plot", "taxa_abundance_box_plot"}
    /\ DefaultArguments
    /\ NothingOut
    /\ IdIdle
    /\ MmIdle
    /\ DmIdle
    /\ OpIdle

\* df = pd.read_csv(..., index_col=0)
TaRead ==
    /\ pc = "tab_load"
    /\ df' = csv
    /\ pc' = "tab_orders"
    /\ UNCHANGED <<csv, orders, done, raised, argVars, outVars, notTa>>

\* One round of the loop over orders.items() that ends in the raise.
TaOrdersRaise ==
    /\ pc = "tab_orders"
    /\ done < Len(orders)
    /\ LET k == orders[done + 1][1]
           v == orders[done + 1][2]
           u == unique(Column(df, k))
       IN  /\ ~values_match(u, v)
           /\ raised' = <<"ValueError", Message(u, v, k)>>
    /\ pc' = "tab_raised"
    /\ UNCHANGED <<csv, orders, df, done, argVars, outVars, notTa>>

\* One round of the loop over orders.items() that passes the check.
TaOrdersMap ==
    /\ pc = "tab_orders"
    /\ done < Len(orders)
    /\ LET k == orders[done + 1][1]
           v == orders[done + 1][2]
           u == unique(Column(df, k))
       IN  /\ values_match(u, v)
           /\ df' = MapColumn(df, k, v)
    /\ done' = done + 1
    /\ UNCHANGED <<pc, csv, orders, raised, argVars, outVars, notTa>>

\* The loop over orders.items() is over.
TaOrdersEnd ==
    /\ pc = "tab_orders"
    /\ done = Len(orders)
    /\ pc' = "tab_sort"
    /\ UNCHANGED <<taVars, argVars, outVars, notTa>>

TaNext ==
    \/ TaRead
    \/ TaOrdersRaise
    \/ TaOrdersMap
    \/ TaOrdersEnd

TaSpec == TaInit /\ [][TaNext]_vars

(***************************************************************************)
(* Claims about the check of orders                                        *)
(***************************************************************************)
\* The values the file holds in the column k.
Observed(k) ==
    {csv.cells[row][CHOOSE c \in 1..Len(csv.columns) : csv.columns[c] = k]
        : row \in 1..Len(csv.cells)}

Supplied(item) == {item[2][p] : p \in 1..Len(item[2])}

\* Whether the text pieces of a message hold the list of values.
Shows(message, values) == \E p \in 1..Len(message) : message[p] = values

\* The observed values of the column k in the order of their first
\* appearance in the file.
ObservedList(k) ==
    LET col == [row \in 1..Len(csv.cells) |->
                   csv.cells[row][CHOOSE c \in 1..Len(csv.columns) : csv.columns[c] = k]]
        firsts == {row \in 1..Len(col) : \A q \in 1..(row - 1) : col[q] # col[row]}
    IN  [p \in 1..Cardinality(firsts) |->
            col[CHOOSE row \in firsts :
                    Cardinality({q \in firsts : q < row}) = p - 1]]

\* C9: an item of orders gets past the check only if the set of values
\* observed in its column equals the set of values of its list, compared
\* exactly; otherwise (an observed value left out, or a value that is not
\* observed) the call ends with a ValueError whose message holds the
\* observed values and the supplied values, and nothing is mapped for it.
C9_OrdersValidated ==
    /\ \A m \in 1..done : Observed(orders[m][1]) = Supplied(orders[m])
    /\ pc = "tab_sort" => (done = Len(orders) /\ raised = <<>>)
    /\ pc = "tab_raised" <=> raised # <<>>
    /\ pc = "tab_raised" =>
          LET item == orders[done + 1]
          IN  /\ Observed(item[1]) # Supplied(item)
              /\ raised[1] = "ValueError"
              /\ Shows(raised[2], ObservedList(item[1]))
              /\ Shows(raised[2], item[2])
              /\ Temporary(item[1]) \notin set(df.columns)
    /\ (pc \in {"tab_orders", "tab_sort"} /\ done < Len(orders)) =>
          \* the next item is still to be checked: nothing of it was used
          Temporary(orders[done + 1][1]) \notin set(df.columns)

\* An observed value is left out of the list: the call has failed.
C9_Witness ==
    /\ pc = "tab_raised"
    /\ Observed(Site) = {"a", "b"}
    /\ orders = <<<<Day, <<"y", "x">>>>, <<Site, <<"a">>>>>>
    /\ done = 1
    /\ raised[2][2] = <<"a", "b">>
    /\ raised[2][4] = <<"a">>

\* A value differs in case only: the call has failed.
C9_WitnessCase ==
    /\ pc = "tab_raised"
    /\ Observed(Site) = {"a"}
    /\ orders = <<<<Site, <<"A">>>>>>

\* C10: a list of orders that is not a permutation of the values observed
\* in its column (the same values, each exactly once) never gets past the
\* check; in particular a list that repeats an observed value is rejected.
C10_OnlyPermutationsAccepted ==
    \A m \in 1..done :
        /\ Observed(orders[m][1]) = Supplied(orders[m])
        /\ Len(orders[m][2]) = Cardinality(Observed(orders[m][1]))

(***************************************************************************)
(* taxa_abundance_bar_plot and taxa_abundance_box_plot, the whole call:    *)
(* after the items of orders the rows are sorted, the mapping of orders is *)
(* reverted, samples and taxa are excluded, the metadata columns are split *)
(* off, the counts become proportions, the taxa are ordered and collapsed, *)
(* the chart is drawn, the table is written and xlabels are checked.  The  *)
(* arguments ax, figsize, width, show_legend, legend_short, legend_loc,    *)
(* colors, hide_ylabels, label_columns, size and log_scale keep their      *)
(* default values.  Proportions are exact fractions <<numerator,           *)
(* denominator>>, where the source has floating-point numbers.             *)
(***************************************************************************)
MaxRows == 3
MaxCount == 5

\* The taxon columns of the file.
TaxonA == <<"k", "_", "_", "A">>
TaxonB == <<"k", "_", "_", "B">>
UnassignedTaxon == <<"U", "n", "a", "s", "s", "i", "g", "n", "e", "d">>

\* The elements of a set of integers, in increasing order.
RECURSIVE Increasing(_)
Increasing(S) ==
    IF S = {} THEN <<>>
    ELSE LET least == CHOOSE a \in S : \A b \in S : a <= b
         IN  <<least>> \o Increasing(S \ {least})

\* frame.iloc[:, cs]: the columns at the positions cs, in that order.
SelectColumns(frame, cs) ==
    Frame([c \in 1..Len(cs) |-> frame.columns[cs[c]]],
          frame.index,
          [row \in 1..Len(frame.cells) |->
              [c \in 1..Len(cs) |-> frame.cells[row][cs[c]]]])

\* frame.iloc[rs]: the rows at the positions rs, in that order.
SelectRows(frame, rs) ==
    Frame(frame.columns,
          [row \in 1..Len(rs) |-> frame.index[rs[row]]],
          [row \in 1..Len(rs) |-> frame.cells[rs[row]]])

\* frame.drop(columns=names): every column with one of the names goes, the
\* others keep their order.
drop(frame, names) ==
    SelectColumns(frame,
        Increasing({c \in 1..Len(frame.columns) : frame.columns[c] \notin names}))

\* frame.rename(columns={old: new})
rename(frame, old, new) ==
    [frame EXCEPT !.columns =
        [c \in 1..Len(frame.columns) |->
            IF frame.columns[c] = old THEN new ELSE frame.columns[c]]]

\* The sort key of a cell of the column k: the position itself when the
\* column holds the positions put there for orders, the code point of the
\* one-character value otherwise.
SortKey(frame, row, k) ==
    LET x == frame.cells[row][ColumnAt(frame, k)]
    IN  IF Temporary(k) \in set(frame.columns) THEN x ELSE Ord(x)

\* Whether the row a sorts strictly before the row b by the columns bys.
RowLess(frame, bys, a, b) ==
    \E m \in 1..Len(bys) :
        /\ \A q \in 1..(m - 1) : SortKey(frame, a, bys[q]) = SortKey(frame, b, bys[q])
        /\ SortKey(frame, a, bys[m]) < SortKey(frame, b, bys[m])

\* The orders of the n first positions, as sequences.
Permutations1(n) ==
    {p \in [1..n -> 1..n] : \A a, b \in 1..n : p[a] = p[b] => a = b}

\* A plausible slip: ascending=False.
sort_values_descending(frame, bys) ==
    {p \in Permutations1(Len(frame.cells)) :
        \A a, b \in 1..Len(p) :
            a < b =>
                /\ ~RowLess(frame, bys, p[a], p[b])
                /\ (Len(bys) > 1 /\ ~RowLess(frame, bys, p[b], p[a])) => p[a] < p[b]}

\* The row orders df.sort_values(by=bys) may give.  The rows come in
\* ascending order of their keys.  With several columns the sort is stable;
\* with one column it is the default quicksort, which promises no order
\* among rows with equal keys.
sort_values(frame, bys) ==
    {p \in Permutations1(Len(frame.cells)) :
        \A a, b \in 1..Len(p) :
            a < b =>
                /\ ~RowLess(frame, bys, p[b], p[a])
                /\ (Len(bys) > 1 /\ ~RowLess(frame, bys, p[a], p[b])) => p[a] < p[b]}

\* A plausible slip: the temporary column is dropped and the column of
\* positions stays.
RevertColumnKeepsPositions(frame, k) == drop(frame, {Temporary(k)})

\* df.drop(columns=[k]) and then df.rename(columns={Temporary(k): k})
RevertColumn(frame, k) == rename(drop(frame, {k}), Temporary(k), k)

\* The loop for k in orders, from its round m on.
RECURSIVE RevertFrom(_, _)
RevertFrom(frame, m) ==
    IF m > Len(orders) THEN frame
    ELSE RevertFrom(RevertColumn(frame, orders[m][1]), m + 1)

\* df[df[x] != y]
RowsWithout(frame, x, y) ==
    SelectRows(frame,
        Increasing({row \in 1..Len(frame.cells) :
                       frame.cells[row][ColumnAt(frame, x)] # y}))

\* The inner loop for y in exclude_samples[x], from its round m on.
RECURSIVE ExcludeValues(_, _, _, _)
ExcludeValues(frame, x, ys, m) ==
    IF m > Len(ys) THEN frame
    ELSE ExcludeValues(RowsWithout(frame, x, ys[m]), x, ys, m + 1)

\* The outer loop for x in exclude_samples, from its round m on.
RECURSIVE ExcludeFrom(_, _)
ExcludeFrom(frame, m) ==
    IF m > Len(exclude_samples) THEN frame
    ELSE ExcludeFrom(ExcludeValues(frame, exclude_samples[m][1],
                                   exclude_samples[m][2], 1), m + 1)

UpperCase ==
    <<"A", "B", "C", "D", "E", "F", "G", "H", "I", "J", "K", "L", "M",
      "N", "O", "P", "Q", "R", "S", "T", "U", "V", "W", "X", "Y", "Z">>
LowerCase ==
    <<"a", "b", "c", "d", "e", "f", "g", "h", "i", "j", "k", "l", "m",
      "n", "o", "p", "q", "r", "s", "t", "u", "v", "w", "x", "y", "z">>

\* s.lower()
lower(s) ==
    [i \in 1..Len(s) |->
        IF \E u \in 1..26 : UpperCase[u] = s[i]
        THEN LowerCase[CHOOSE u \in 1..26 : UpperCase[u] = s[i]]
        ELSE s[i]]

\* tax.lower() in col.lower(): whether the loops over exclude_taxa and
\* df.columns append col to dropped.
TaxonMatches(tax, col) == Contains(lower(col), lower(tax))

\* The list dropped of the exclusion of taxa, as a set.
ExcludedColumns(frame) ==
    {frame.columns[c] : c \in
        {c \in 1..Len(frame.columns) :
            \E m \in 1..Len(exclude_taxa) :
                TaxonMatches(exclude_taxa[m], frame.columns[c])}}

\* 'Unassigned' in column or '__' in column: whether the loop over
\* df.columns leaves the column out of dropped.
IsTaxonColumn(column) ==
    Contains(column, UnassignedTaxon) \/ Contains(column, <<"_", "_">>)

\* The list dropped of the removal of the metadata columns, as a set.
MetadataColumns(frame) ==
    {frame.columns[c] : c \in
        {c \in 1..Len(frame.columns) : ~IsTaxonColumn(frame.columns[c])}}

SampleId == <<"s", "a", "m", "p", "l", "e", "-", "i", "d">>

\* mf = df[dropped]; mf = mf.assign(**{'sample-id': mf.index})
MetadataFrame(frame) ==
    LET part == SelectColumns(frame,
                    Increasing({c \in 1..Len(frame.columns) :
                                   ~IsTaxonColumn(frame.columns[c])}))
    IN  Frame(Append(part.columns, SampleId),
              part.index,
              [row \in 1..Len(part.cells) |-> Append(part.cells[row], part.index[row])])

RECURSIVE Sum(_)
Sum(numbers) ==
    IF numbers = <<>> THEN 0 ELSE Head(numbers) + Sum(Tail(numbers))

RECURSIVE Product(_)
Product(numbers) ==
    IF numbers = <<>> THEN 1 ELSE Head(numbers) * Product(Tail(numbers))

\* A plausible slip: the counts are divided by the totals of the file, the
\* taxa excluded since then included.
RowTotalOfFile(frame, row) ==
    LET label == frame.index[row]
        r0 == CHOOSE q \in 1..Len(csv.index) : csv.index[q] = label
    IN  Sum([c \in 1..3 |-> csv.cells[r0][Len(csv.columns) - 3 + c]])

\* df.sum(axis=1), for one row of the table of counts.
RowTotal(frame, row) == Sum(frame.cells[row])

\* df.div(df.sum(axis=1), axis=0): every count over the total of its row.
\* A total of 0 gives 0/0, which is NaN.
Proportions(frame) ==
    [frame EXCEPT !.cells =
        [row \in 1..Len(frame.cells) |->
            [c \in 1..Len(frame.columns) |->
                <<frame.cells[row][c], RowTotal(frame, row)>>]]]

\* The rows of a table of proportions that do not hold NaN.
NumberRows(frame) ==
    {row \in 1..Len(frame.cells) :
        \A c \in 1..Len(frame.columns) : frame.cells[row][c][2] # 0}

\* df.mean() of the column c, which leaves NaN out, times the number of
\* rows counted and the product of their denominators: an integer that
\* orders the columns as their means do.
MeanTimes(frame, c) ==
    LET rows == Increasing(NumberRows(frame))
    IN  Sum([m \in 1..Len(rows) |->
                frame.cells[rows[m]][c][1]
                    * Product([q \in 1..Len(rows) |->
                                  IF q = m THEN 1 ELSE frame.cells[rows[q]][c][2]])])

\* The column orders df.mean().sort_values(ascending=False).index may give:
\* descending means, no order promised among equal means, and the order of
\* the table when every mean is NaN.
sort_by_mean(frame) ==
    IF NumberRows(frame) = {} \/ frame.columns = <<>>
    THEN {[c \in 1..Len(frame.columns) |-> c]}
    ELSE {p \in Permutations1(Len(frame.columns)) :
             \A a, b \in 1..Len(p) :
                 a < b => MeanTimes(frame, p[a]) >= MeanTimes(frame, p[b])}

\* The first position of the slice [i:] or the end of the slice [:i] of a
\* list of n elements.
SliceBound(i, n) ==
    IF i < 0 THEN (IF n + i < 0 THEN 0 ELSE n + i)
    ELSE (IF i > n THEN n ELSE i)

\* frame.iloc[:, a:b].sum(axis=1) for one row: NaN is left out, and the sum
\* of nothing is 0.
SumOfColumns(frame, row, a, b) ==
    LET nums == [c \in 1..(b - a) |-> frame.cells[row][a + c][1]]
        den  == IF b > a THEN frame.cells[row][a + 1][2] ELSE 0
    IN  IF den = 0 THEN <<0, 1>> ELSE <<Sum(nums), den>>

Other == <<"O", "t", "h", "e", "r">>

\* A plausible slip: count columns are kept before Other.
CollapseKeepsCount(frame, k) ==
    LET n == Len(frame.columns)
        cut == SliceBound(k, n)
        kept == SelectColumns(frame, [c \in 1..cut |-> c])
    IN  Frame(Append(kept.columns, Other),
              kept.index,
              [row \in 1..Len(kept.cells) |->
                  Append(kept.cells[row], SumOfColumns(frame, row, cut, n))])

\* other = df.iloc[:, count-1:].sum(axis=1); df = df.iloc[:, :count-1];
\* df['Other'] = other
Collapse(frame, k) ==
    LET n == Len(frame.columns)
        cut == SliceBound(k - 1, n)
        kept == SelectColumns(frame, [c \in 1..cut |-> c])
    IN  Frame(Append(kept.columns, Other),
              kept.index,
              [row \in 1..Len(kept.cells) |->
                  Append(kept.cells[row], SumOfColumns(frame, row, cut, n))])

\* df.reindex(sorted(df.columns), axis=1)
SortedByName(frame) ==
    LET names == sorted(set(frame.columns))
    IN  SelectColumns(frame, [c \in 1..Len(names) |-> ColumnAt(frame, names[c])])

\* pd.melt(df * 100): one row <<variable, value>> per cell, column after
\* column.
melt100(frame) ==
    LET rows == Len(frame.cells)
    IN  [m \in 1..(rows * Len(frame.columns)) |->
            LET c == ((m - 1) \div rows) + 1
                row == ((m - 1) % rows) + 1
            IN  <<frame.columns[c],
                  <<100 * frame.cells[row][c][1], frame.cells[row][c][2]>>>>]

\* The counts of the three taxa a row of the file may hold.
CountRows == << <<2, 1, 1>>, <<0, 3, 1>>, <<0, 0, 0>>, <<1, 0, 0>> >>
CountsOfRow(k) == CountRows[((k - 1) % 4) + 1]

\* The label of the k-th sample of the file.
SampleLabel(k) == <<"sample", k>>

\* A file of level-{level}.csv: two metadata columns, then the taxa.
TaxaTable(site, counts) ==
    Frame(<<Site, Day, TaxonA, TaxonB, UnassignedTaxon>>,
          [k \in 1..Len(site) |-> SampleLabel(k)],
          [k \in 1..Len(site) |-> <<site[k], DayOfRow(k)>> \o counts[k]])

\* The texts a list given as xlabels is taken from.
LabelTexts == <<"one", "two", "three", "four", "five", "six">>

\* The path given as csv_file.
CsvPath == <<"out.csv">>

SiteA == <<Site, <<"a", "b">>>>
SiteB == <<Site, <<"b", "a">>>>

\* Calls that differ in what decides the order of the rows: the column
\* Site of the file, orders, by, exclude_samples and sample_names.
SortingCalls ==
    /\ csv \in UNION { {TaxaTable(site, [k \in 1..n |-> CountsOfRow(k)])
                          : site \in [1..n -> {"a", "b"}]}
                       : n \in 1..MaxRows }
    /\ orders \in { <<>>, <<SiteA>>, <<SiteB>>,
                    <<<<Site, <<"a">>>>>>, <<<<Site, <<"b">>>>>>,
                    <<<<Day, <<"x", "y">>>>>>,
                    <<SiteB, <<Day, <<"x", "y">>>>>>,
                    <<<<Site, <<"b", "a", "b">>>>>> }
    /\ by \in {<<>>, <<Site>>, <<Day>>, <<Site, Day>>, <<Day, Site>>}
    /\ exclude_samples \in {<<>>, <<<<Site, <<"a">>>>>>, <<<<Day, <<"x">>>>>>}
    /\ sample_names \in {<<>>, <<SampleLabel(2), SampleLabel(1)>>, <<SampleLabel(1)>>}
    /\ fn = "taxa_abundance_bar_plot"
    /\ count = 0 /\ exclude_taxa = <<>> /\ sort_by_names = FALSE
    /\ hide_xlabels = FALSE /\ csv_file = CsvPath /\ xlabels = None

\* Calls that differ in what decides the columns and the cells: the counts
\* of the file, count, exclude_taxa, sort_by_names, and the exclusion and
\* the choice of samples.
TaxaCalls ==
    /\ csv \in UNION { {TaxaTable([k \in 1..n |-> IF k = 1 THEN "a" ELSE "b"], counts)
                          : counts \in [1..n -> set(CountRows)]}
                       : n \in 1..(MaxRows - 1) }
    /\ orders = <<>>
    /\ by = <<>>
    /\ exclude_samples \in {<<>>, <<<<Site, <<"a">>>>>>}
    /\ sample_names \in {<<>>, <<SampleLabel(1)>>}
    /\ fn = "taxa_abundance_bar_plot"
    /\ count \in 0..MaxCount
    /\ exclude_taxa \in { <<>>,
                          <<<<"k", "_", "_", "a">>>>,
                          <<<<"S">>>>,
                          <<<<"u", "n", "a", "s", "s", "i", "g", "n", "e", "d">>,
                            <<"K", "_", "_", "B">>>>,
                          <<<<"_", "_">>>> }
    /\ sort_by_names \in BOOLEAN
    /\ hide_xlabels = FALSE /\ csv_file = CsvPath /\ xlabels = None

\* Calls that differ in what decides the checks and the output: the
\* function, orders, xlabels, csv_file, hide_xlabels, and how many rows and
\* columns are left to plot.
OutputCalls ==
    /\ csv \in {TaxaTable([k \in 1..n |-> IF k % 2 = 1 THEN "a" ELSE "b"],
                          [k \in 1..n |-> CountsOfRow(k)])
                   : n \in 1..MaxRows}
    /\ orders \in {<<>>, <<SiteA>>, <<<<Site, <<"a">>>>>>}
    /\ by \in {<<>>, <<Site>>}
    /\ exclude_samples \in {<<>>, <<<<Site, <<"a">>>>>>}
    /\ sample_names = <<>>
    /\ fn \in {"taxa_abundance_bar_plot", "taxa_abundance_box_plot"}
    /\ count \in {0, 2}
    /\ exclude_taxa \in {<<>>, <<<<"_", "_">>, <<"u", "n", "a", "s", "s", "i", "g", "n", "e", "d">>>>}
    /\ sort_by_names = FALSE
    /\ hide_xlabels \in BOOLEAN
    /\ csv_file \in {None, CsvPath}
    /\ xlabels \in {None} \cup {SubSeq(LabelTexts, 1, len) : len \in 0..MaxRows}

TpInit ==
    /\ pc = "tab_load"
    /\ SortingCalls \/ TaxaCalls \/ OutputCalls
    /\ df = Frame(<<>>, <<>>, <<>>)
    /\ done = 0
    /\ raised = <<>>
    /\ NothingOut
    /\ IdIdle
    /\ MmIdle
    /\ DmIdle
    /\ OpIdle

\* The arguments of the call, which no statement assigns.
inVars == <<csv, orders, argVars>>

\* if by: df = df.sort_values(by=by)
TpSort ==
    /\ pc = "tab_sort"
    /\ IF by # <<>>
       THEN \E p \in sort_values(df, by) : df' = SelectRows(df, p)
       ELSE df' = df
    /\ pc' = "tab_revert"
    /\ UNCHANGED <<inVars, done, raised, outVars, notTa>>

\* for k in orders: the column of positions is dropped and the temporary
\* column gets its name back.
TpRevert ==
    /\ pc = "tab_revert"
    /\ df' = RevertFrom(df, 1)
    /\ pc' = "tab_exclude_samples"
    /\ UNCHANGED <<inVars, done, raised, outVars, notTa>>

\* if exclude_samples: the two loops.
TpExcludeSamples ==
    /\ pc = "tab_exclude_samples"
    /\ df' = ExcludeFrom(df, 1)
    /\ pc' = "tab_exclude_taxa"
    /\ UNCHANGED <<inVars, done, raised, outVars, notTa>>

\* if exclude_taxa: df = df.drop(columns=dropped)
TpExcludeTaxa ==
    /\ pc = "tab_exclude_taxa"
    /\ df' = drop(df, ExcludedColumns(df))
    /\ pc' = "tab_sample_names"
    /\ UNCHANGED <<inVars, done, raised, outVars, notTa>>

\* if sample_names: df = df.loc[sample_names], every name being a label of
\* the table.
TpSampleNames ==
    /\ pc = "tab_sample_names"
    /\ set(sample_names) \subseteq set(df.index)
    /\ IF sample_names # <<>>
       THEN df' = SelectRows(df,
                     [m \in 1..Len(sample_names) |->
                         CHOOSE row \in 1..Len(df.index) : df.index[row] = sample_names[m]])
       ELSE df' = df
    /\ pc' = "tab_metadata"
    /\ UNCHANGED <<inVars, done, raised, outVars, notTa>>

\* df.loc[sample_names] with a name that is no label of the table.
TpSampleNamesRaise ==
    /\ pc = "tab_sample_names"
    /\ ~(set(sample_names) \subseteq set(df.index))
    /\ raised' = <<"KeyError", sample_names>>
    /\ pc' = "tab_raised"
    /\ UNCHANGED <<inVars, df, done, outVars, notTa>>

\* The metadata columns go to mf and leave df.
TpMetadata ==
    /\ pc = "tab_metadata"
    /\ mf' = MetadataFrame(df)
    /\ df' = drop(df, MetadataColumns(df))
    /\ pc' = "tab_proportions"
    /\ UNCHANGED <<inVars, done, raised, drawn, xticklabels, disk, notTa>>

\* df = df.div(df.sum(axis=1), axis=0)
TpProportions ==
    /\ pc = "tab_proportions"
    /\ df' = Proportions(df)
    /\ pc' = "tab_sort_columns"
    /\ UNCHANGED <<inVars, done, raised, outVars, notTa>>

\* df = df.loc[:, df.mean().sort_values(ascending=False).index]
TpSortColumns ==
    /\ pc = "tab_sort_columns"
    /\ \E p \in sort_by_mean(df) : df' = SelectColumns(df, p)
    /\ pc' = "tab_count"
    /\ UNCHANGED <<inVars, done, raised, outVars, notTa>>

\* if count is not 0: the columns from count - 1 on become Other.
TpCount ==
    /\ pc = "tab_count"
    /\ df' = IF count # 0 THEN Collapse(df, count) ELSE df
    /\ pc' = "tab_sort_by_names"
    /\ UNCHANGED <<inVars, done, raised, outVars, notTa>>

\* if sort_by_names: df = df.reindex(sorted(df.columns), axis=1)
TpSortByNames ==
    /\ pc = "tab_sort_by_names"
    /\ df' = IF sort_by_names THEN SortedByName(df) ELSE df
    /\ pc' = "tab_plot"
    /\ UNCHANGED <<inVars, done, raised, outVars, notTa>>

\* Whether the table has nothing to plot.
NothingToPlot == df.columns = <<>> \/ df.cells = <<>>

\* The chart is drawn: df.plot.bar(stacked=True, ...), with one x tick per
\* row, or sns.boxplot and sns.swarmplot of the melted table, with one x
\* tick per column.
TpPlot ==
    /\ pc = "tab_plot"
    /\ fn = "taxa_abundance_bar_plot" => df.columns # <<>>
    /\ IF fn = "taxa_abundance_bar_plot"
       THEN /\ drawn' = Append(drawn, <<"bar", df>>)
            /\ xticklabels' = df.index
       ELSE /\ drawn' = drawn \o <<<<"boxplot", melt100(df)>>, <<"swarmplot", melt100(df)>>>>
            /\ xticklabels' = IF df.cells = <<>> THEN <<>> ELSE df.columns
    /\ pc' = "tab_xticks"
    /\ UNCHANGED <<inVars, df, done, raised, mf, disk, notTa>>

\* The plotting call fails: no numeric data to plot (a table without
\* columns), or, as the plotting library may do, an empty table refused.
TpPlotRaise ==
    /\ pc = "tab_plot"
    /\ NothingToPlot
    /\ raised' = <<"plotting", fn>>
    /\ pc' = "tab_raised"
    /\ UNCHANGED <<inVars, df, done, outVars, notTa>>

\* if hide_xlabels: ax.set_xticks([])
TpXticks ==
    /\ pc = "tab_xticks"
    /\ xticklabels' = IF hide_xlabels THEN <<>> ELSE xticklabels
    /\ drawn' = IF hide_xlabels THEN Append(drawn, <<"set_xticks", <<>>>>) ELSE drawn
    /\ pc' = "tab_csv"
    /\ UNCHANGED <<inVars, df, done, raised, mf, disk, notTa>>

\* if csv_file is not None: df.to_csv(csv_file)
TpCsv ==
    /\ pc = "tab_csv"
    /\ disk' = IF csv_file # None THEN (csv_file :> df) @@ disk ELSE disk
    /\ pc' = "tab_xlabels"
    /\ UNCHANGED <<inVars, df, done, raised, mf, drawn, xticklabels, notTa>>

\* A plausible slip: the number of labels is not checked.
xlabels_unchecked(xtexts, labels) == TRUE

\* not (len(xtexts) != len(xlabels))
xlabels_fit(xtexts, labels) == Len(xtexts) = Len(labels)

\* if xlabels is not None: the count of the labels is wrong.
TpXlabelsRaise ==
    /\ pc = "tab_xlabels"
    /\ xlabels # None
    /\ ~xlabels_fit(xticklabels, xlabels)
    /\ raised' = <<"ValueError",
                   <<"Expected ", Len(xticklabels), " items, but found ", Len(xlabels)>>>>
    /\ pc' = "tab_raised"
    /\ UNCHANGED <<inVars, df, done, outVars, notTa>>

\* if xlabels is not None: ax.set_xticklabels(xlabels); the call returns.
TpXlabels ==
    /\ pc = "tab_xlabels"
    /\ xlabels # None => xlabels_fit(xticklabels, xlabels)
    /\ xticklabels' = IF xlabels # None THEN xlabels ELSE xticklabels
    /\ drawn' = IF xlabels # None THEN Append(drawn, <<"set_xticklabels", xlabels>>) ELSE drawn
    /\ pc' = "tab_return"
    /\ UNCHANGED <<inVars, df, done, raised, mf, disk, notTa>>

TpNext ==
    \/ TaRead
    \/ TaOrdersRaise
    \/ TaOrdersMap
    \/ TaOrdersEnd
    \/ TpSort
    \/ TpRevert
    \/ TpExcludeSamples
    \/ TpExcludeTaxa
    \/ TpSampleNames
    \/ TpSampleNamesRaise
    \/ TpMetadata
    \/ TpProportions
    \/ TpSortColumns
    \/ TpCount
    \/ TpSortByNames
    \/ TpPlot
    \/ TpPlotRaise
    \/ TpXticks
    \/ TpCsv
    \/ TpXlabelsRaise
    \/ TpXlabels

TpSpec == TpInit /\ [][TpNext]_vars

(***************************************************************************)
(* Claims about the whole call of the taxa functions                       *)
(***************************************************************************)
\* The value the file holds for the sample with the label, in the column k.
FileValue(label, k) ==
    csv.cells[CHOOSE row \in 1..Len(csv.index) : csv.index[row] = label]
             [CHOOSE c \in 1..Len(csv.columns) : csv.columns[c] = k]

\* Whether the list of an item of orders is an exact permutation of the
\* values the file holds in its column.
ExactPermutation(item) ==
    /\ Supplied(item) = Observed(item[1])
    /\ Len(item[2]) = Cardinality(Observed(item[1]))

\* The place of a value in a supplied list.
PlaceIn(v, x) == CHOOSE p \in 1..Len(v) : v[p] = x

\* Whether the rows of the table come in the order the list v gives to
\* their values of the column k.
RowsFollow(frame, k, v) ==
    \A a, b \in 1..Len(frame.index) :
        a < b => PlaceIn(v, FileValue(frame.index[a], k))
                     <= PlaceIn(v, FileValue(frame.index[b], k))

\* The tables of the output: the table written to csv_file and the tables
\* drawn as bars.
OutputTables ==
    {disk[path] : path \in DOMAIN disk}
        \cup {drawn[m][2] : m \in {m \in 1..Len(drawn) : drawn[m][1] = "bar"}}

\* C11 as claimed: an item of orders whose list is an exact permutation of
\* the values of its column k is not rejected, and the rows of the table
\* that is plotted and written to csv_file follow the supplied order of k,
\* whatever by, exclude_samples and sample_names are.
C11_RowsFollowOrdersAlways ==
    \A m \in 1..Len(orders) :
        ExactPermutation(orders[m]) =>
            /\ ~(pc = "tab_raised" /\ done = m - 1)
            /\ \A table \in OutputTables : RowsFollow(table, orders[m][1], orders[m][2])

\* C11 as amended: an item of orders whose list is an exact permutation of
\* the values of its column k is not rejected; and when by names k first
\* and sample_names is empty, the rows of the table that is plotted and
\* written to csv_file follow the supplied order of k, whatever
\* exclude_samples and the further columns of by are.
C11_RowsFollowOrdersWhenSortedByColumn ==
    \A m \in 1..Len(orders) :
        ExactPermutation(orders[m]) =>
            /\ ~(pc = "tab_raised" /\ done = m - 1)
            /\ (by # <<>> /\ by[1] = orders[m][1] /\ sample_names = <<>>) =>
                  \A table \in OutputTables :
                      RowsFollow(table, orders[m][1], orders[m][2])

\* Three samples of the sites a, b, a sorted by the order b, a: the sample
\* of b comes first in the table drawn and written.
C11_Witness ==
    /\ pc = "tab_return"
    /\ Len(csv.index) = 3
    /\ Column(csv, Site) = <<"a", "b", "a">>
    /\ orders = <<SiteB>>
    /\ by = <<Site, Day>>
    /\ sample_names = <<>> /\ exclude_samples = <<>>
    /\ disk[CsvPath].index = <<SampleLabel(2), SampleLabel(1), SampleLabel(3)>>
    /\ drawn[1][2].index = disk[CsvPath].index

\* C12: the mapping of orders is fully reverted.  After the loop over
\* orders, the sort and the loop that reverts, whatever the number of items
\* of orders, the table has the column names of the file in the same
\* positions, no temporary column and no column of positions is left, the
\* samples are those of the file, each once, and every sample has in every
\* column the value the file holds for it; only the order of the rows may
\* differ.
C12_MappingReverted ==
    pc = "tab_exclude_samples" =>
        /\ df.columns = csv.columns
        /\ \A m \in 1..Len(orders) : Temporary(orders[m][1]) \notin set(df.columns)
        /\ Len(df.index) = Len(csv.index)
        /\ set(df.index) = set(csv.index)
        /\ Len(df.cells) = Len(df.index)
        /\ \A row \in 1..Len(df.index) : \A c \in 1..Len(csv.columns) :
              /\ Len(df.cells[row]) = Len(csv.columns)
              /\ df.cells[row][c] = FileValue(df.index[row], csv.columns[c])

\* Two items of orders, and a sort that changed the order of the rows.
C12_Witness ==
    /\ pc = "tab_exclude_samples"
    /\ orders = <<SiteB, <<Day, <<"x", "y">>>>>>
    /\ by = <<Site, Day>>
    /\ Column(csv, Site) = <<"a", "b", "b">>
    /\ df.index = <<SampleLabel(2), SampleLabel(3), SampleLabel(1)>>
    /\ df.columns = csv.columns
    /\ Column(df, Site) = <<"b", "b", "a">>

(***************************************************************************)
(* read_quality_plot and alpha_rarefaction_plot: a scratch directory is    *)
(* made, the visualization is exported into it, the option (strand or      *)
(* metric) is checked, the table of the option is read and plotted.  The   *)
(* functions are called one call after the other.  No statement removes    *)
(* the scratch directory: the TemporaryDirectory object removes it when    *)
(* the object is released, which is at the return of the function, or,     *)
(* after a raise, when the exception (whose traceback refers to the frame  *)
(* of the function and so to t) is released.                               *)
(***************************************************************************)
MaxCalls == 2

\* l = ['forward', 'reverse']
StrandList == <<"forward", "reverse">>

\* l = ['observed_features', 'faith_pd', 'shannon']
MetricList == <<"observed_features", "faith_pd", "shannon">>

\* The values given as strand and as metric.
Strands == {"forward", "reverse", "Forward", "both", "shannon"}
Metrics == {"observed_features", "faith_pd", "shannon", "Shannon", "forward"}

\* The files a visualization of demux summarize holds, for single and for
\* paired reads, and those a visualization of alpha rarefaction holds, with
\* and without a phylogeny.
DemuxArchives ==
    { {"forward-seven-number-summaries.tsv"},
      {"forward-seven-number-summaries.tsv", "reverse-seven-number-summaries.tsv"} }
RarefactionArchives ==
    { {"observed_features.csv", "shannon.csv"},
      {"observed_features.csv", "faith_pd.csv", "shannon.csv"} }

\* The names mkdtemp may give.
TmpNameList == <<"/tmp/tmp1", "/tmp/tmp2", "/tmp/tmp3", "/tmp/tmp4", "/tmp/tmp5">>
TmpNames == {TmpNameList[m] : m \in 1..(MaxCalls + 1)}

\* str.lower() of the values given as strand and as metric.
OptionLower(x) ==
    CASE x = "Forward" -> "forward"
      [] x = "Shannon" -> "shannon"
      [] OTHER -> x

\* A plausible slip: the option is compared without regard to case.
in_list_ignoring_case(x, l) == \E m \in 1..Len(l) : l[m] = OptionLower(x)

\* x in l
in_list(x, l) == \E m \in 1..Len(l) : l[m] = x

\* The list l of the running function.
OptionList == IF callee = "read_quality_plot" THEN StrandList ELSE MetricList

\* The name of the file that is read for the option.
OptionFile ==
    IF callee = "read_quality_plot"
    THEN option \o "-seven-number-summaries.tsv"
    ELSE option \o ".csv"

\* The arguments a call may have: <<function, strand or metric, files of
\* the visualization, whether it is given as an object>>.
OpArguments ==
    ({"read_quality_plot"} \X Strands \X DemuxArchives \X {FALSE})
        \cup ({"alpha_rarefaction_plot"} \X Metrics \X RarefactionArchives \X BOOLEAN)

OpInit ==
    /\ pc = "opt_tempdir"
    /\ \E a \in OpArguments :
        callee = a[1] /\ option = a[2] /\ archive = a[3] /\ as_object = a[4]
    /\ scratch = "" /\ tmp = EmptyDict /\ held = {} /\ loaded = ""
    /\ canvas = <<>> /\ error = <<>> /\ ncalls = 1
    /\ IdIdle
    /\ MmIdle
    /\ DmIdle
    /\ TaIdle

\* The directory d with all it holds is removed.
Removed(d) == [x \in DOMAIN tmp \ {d} |-> tmp[x]]

\* t = TemporaryDirectory(): a directory that did not exist is made.
OpTemporaryDirectory ==
    /\ pc = "opt_tempdir"
    /\ \E name \in TmpNames \ DOMAIN tmp :
        /\ scratch' = name
        /\ tmp' = (name :> {}) @@ tmp
    /\ pc' = IF callee = "alpha_rarefaction_plot" THEN "opt_save" ELSE "opt_export"
    /\ UNCHANGED <<callee, option, archive, as_object, held, loaded, canvas,
                   error, ncalls, notOp>>

\* alpha_rarefaction_plot: a Visualization object is saved into t.name.
OpSave ==
    /\ pc = "opt_save"
    /\ tmp' = IF as_object
              THEN [tmp EXCEPT ![scratch] = @ \cup {"alpha-rarefaction.qzv"}]
              ELSE tmp
    /\ pc' = "opt_export"
    /\ UNCHANGED <<callee, option, archive, as_object, scratch, held, loaded,
                   canvas, error, ncalls, notOp>>

\* Visualization.load(...).export_data(t.name)
OpExport ==
    /\ pc = "opt_export"
    /\ tmp' = [tmp EXCEPT ![scratch] = @ \cup archive]
    /\ pc' = "opt_check"
    /\ UNCHANGED <<callee, option, archive, as_object, scratch, held, loaded,
                   canvas, error, ncalls, notOp>>

\* if strand not in l: raise ValueError(...), and the same for metric.
OpCheckRaise ==
    /\ pc = "opt_check"
    /\ ~in_list(option, OptionList)
    /\ error' = <<"ValueError", OptionList>>
    /\ held' = held \cup {scratch}
    /\ pc' = "opt_raised"
    /\ UNCHANGED <<callee, option, archive, as_object, scratch, tmp, loaded,
                   canvas, ncalls, notOp>>

\* The option is in the list.
OpCheck ==
    /\ pc = "opt_check"
    /\ in_list(option, OptionList)
    /\ pc' = "opt_read"
    /\ UNCHANGED <<opVars, notOp>>

\* df = pd.read_table(...) or pd.read_csv(...) of the file of the option.
OpRead ==
    /\ pc = "opt_read"
    /\ OptionFile \in tmp[scratch]
    /\ loaded' = OptionFile
    /\ pc' = "opt_plot"
    /\ UNCHANGED <<callee, option, archive, as_object, scratch, tmp, held,
                   canvas, error, ncalls, notOp>>

\* The visualization does not hold the file of the option.
OpReadRaise ==
    /\ pc = "opt_read"
    /\ OptionFile \notin tmp[scratch]
    /\ error' = <<"FileNotFoundError", <<OptionFile>>>>
    /\ held' = held \cup {scratch}
    /\ pc' = "opt_raised"
    /\ UNCHANGED <<callee, option, archive, as_object, scratch, tmp, loaded,
                   canvas, ncalls, notOp>>

\* sns.boxplot(...) or sns.lineplot(...) of the table.
OpPlot ==
    /\ pc = "opt_plot"
    /\ canvas' = Append(canvas,
                    <<IF callee = "read_quality_plot" THEN "boxplot" ELSE "lineplot",
                      loaded>>)
    /\ pc' = "opt_labels"
    /\ UNCHANGED <<callee, option, archive, as_object, scratch, tmp, held,
                   loaded, error, ncalls, notOp>>

\* The function returns: t is released and its directory removed.
OpReturn ==
    /\ pc = "opt_labels"
    /\ tmp' = Removed(scratch)
    /\ pc' = "opt_return"
    /\ UNCHANGED <<callee, option, archive, as_object, scratch, held, loaded,
                   canvas, error, ncalls, notOp>>

\* An exception of an earlier raise is released, and with it the frame and
\* its t: the directory is removed.
OpRelease ==
    /\ pc \in {"opt_raised", "opt_return"}
    /\ \E d \in held :
        /\ held' = held \ {d}
        /\ tmp' = Removed(d)
    /\ UNCHANGED <<pc, callee, option, archive, as_object, scratch, loaded,
                   canvas, error, ncalls, notOp>>

\* The next call begins.
OpCallAgain ==
    /\ pc \in {"opt_raised", "opt_return"}
    /\ ncalls < MaxCalls
    /\ ncalls' = ncalls + 1
    /\ \E a \in OpArguments :
        callee' = a[1] /\ option' = a[2] /\ archive' = a[3] /\ as_object' = a[4]
    /\ scratch' = "" /\ loaded' = "" /\ canvas' = <<>> /\ error' = <<>>
    /\ pc' = "opt_tempdir"
    /\ UNCHANGED <<tmp, held, notOp>>

OpNext ==
    \/ OpTemporaryDirectory
    \/ OpSave
    \/ OpExport
    \/ OpCheckRaise
    \/ OpCheck
    \/ OpRead
    \/ OpReadRaise
    \/ OpPlot
    \/ OpReturn
    \/ OpRelease
    \/ OpCallAgain

OpSpec == OpInit /\ [][OpNext]_vars

\* The rows of a table of proportions whose total is not 0.
RowsWithTotal(frame) ==
    Increasing({row \in 1..Len(frame.cells) : frame.cells[row][1][2] # 0})

\* The mean proportion of the column c over the rows with a total, times
\* the number of those rows and the product of their totals.
ScaledMean(frame, c) ==
    LET rows == RowsWithTotal(frame)
        all == Product([m \in 1..Len(rows) |-> frame.cells[rows[m]][1][2]])
    IN  Sum([m \in 1..Len(rows) |->
                frame.cells[rows[m]][c][1] * (all \div frame.cells[rows[m]][1][2])])

\* Whether the table after is the table before collapsed to k columns: the
\* k - 1 first columns, none of which has a lower mean proportion than a
\* column left out, followed by the column Other.
CollapsedTo(before, after, k) ==
    /\ Len(after.columns) = k
    /\ after.columns = SubSeq(before.columns, 1, k - 1) \o <<Other>>
    /\ \A a \in 1..(k - 1) : \A b \in k..Len(before.columns) :
          ScaledMean(before, a) >= ScaledMean(before, b)

\* C14 as claimed: with count = 0 every taxon column is kept and no column
\* Other is added; with count = k > 0 the final table has exactly k
\* columns, the k - 1 taxa with the highest mean proportion followed by
\* Other, whatever the number of taxon columns is.
C14_CountIsNumberOfColumns ==
    [][ /\ pc = "tab_count" =>
              IF count = 0
              THEN df' = df /\ Other \notin set(df'.columns)
              ELSE CollapsedTo(df, df', count)
        /\ pc = "tab_sort_by_names" => df'.columns = df.columns ]_vars

\* C14 as amended: with count = 0 every taxon column is kept and no column
\* Other is added; with count = k > 0 and at least k - 1 taxon columns in
\* the table (after exclude_taxa), the final table has exactly k columns,
\* the k - 1 taxa with the highest mean proportion and Other, with Other
\* last unless sort_by_names puts the columns in the order of their names.
C14_CountIsNumberOfColumnsWhenEnoughTaxa ==
    [][ /\ pc = "tab_count" =>
              IF count = 0
              THEN df' = df /\ Other \notin set(df'.columns)
              ELSE Len(df.columns) >= count - 1 => CollapsedTo(df, df', count)
        /\ pc = "tab_sort_by_names" =>
              /\ set(df'.columns) = set(df.columns)
              /\ Len(df'.columns) = Len(df.columns)
              /\ ~sort_by_names => df'.columns = df.columns ]_vars

\* Three taxa collapsed with count = 2: the taxon with the highest mean
\* proportion, then Other.
C14_Witness ==
    /\ pc = "tab_sort_by_names"
    /\ count = 2
    /\ exclude_taxa = <<>>
    /\ Len(csv.index) = 2
    /\ csv.cells[1] = <<"a", "y", 2, 1, 1>>
    /\ csv.cells[2] = <<"b", "x", 0, 3, 1>>
    /\ exclude_samples = <<>> /\ sample_names = <<>>
    /\ df.columns = <<TaxonB, Other>>
    /\ df.cells[1] = <<<<1, 4>>, <<3, 4>>>>

\* Whether the text has the part, compared without regard to case.
HasPartIgnoringCase(text, part) ==
    \E a \in 0..(Len(text) - Len(part)) :
        \A m \in 1..Len(part) : lower(<<text[a + m]>>) = lower(<<part[m]>>)

\* The taxon columns, as the claim gives them: the name contains two
\* underscores or Unassigned.
NamesTaxon(name) ==
    \/ \E a \in 1..(Len(name) - 1) : name[a] = "_" /\ name[a + 1] = "_"
    \/ \E a \in 0..(Len(name) - 10) : SubSeq(name, a + 1, a + 10) = UnassignedTaxon

\* The columns of the file that exclude_taxa is to remove: the taxon
\* columns whose name has one of the given strings.
TaxaToExclude ==
    {c \in 1..Len(csv.columns) :
        /\ NamesTaxon(csv.columns[c])
        /\ \E m \in 1..Len(exclude_taxa) :
              HasPartIgnoringCase(csv.columns[c], exclude_taxa[m])}

\* The names of the columns of the file at the positions cs, in the order
\* of the file.
FileColumns(cs) ==
    LET at == Increasing(cs) IN [m \in 1..Len(at) |-> csv.columns[at[m]]]

\* C15: exclude_taxa removes taxa only.  After the exclusion the table has
\* the columns of the file without the taxon columns whose name has one of
\* the given strings, compared without regard to case; no metadata column
\* is removed, so mf holds every metadata column of the file (and
\* sample-id), with and without exclude_taxa.
C15_ExcludeTaxaRemovesTaxaOnly ==
    /\ pc = "tab_sample_names" =>
          df.columns = FileColumns((1..Len(csv.columns)) \ TaxaToExclude)
    /\ pc \in {"tab_proportions", "tab_sort_columns", "tab_count", "tab_sort_by_names",
               "tab_plot", "tab_xticks", "tab_csv", "tab_xlabels", "tab_return"} =>
          mf.columns =
              FileColumns({c \in 1..Len(csv.columns) : ~NamesTaxon(csv.columns[c])})
                  \o <<SampleId>>

\* C15, for the strings of exclude_taxa that no name of a metadata column
\* has.
C15_ExcludeTaxaRemovesTaxaOnlyWhenNoMetadataMatches ==
    (\A c \in 1..Len(csv.columns) : \A m \in 1..Len(exclude_taxa) :
        NamesTaxon(csv.columns[c])
            \/ ~HasPartIgnoringCase(csv.columns[c], exclude_taxa[m]))
    => C15_ExcludeTaxaRemovesTaxaOnly

\* The taxon columns of the file that exclude_taxa leaves in the table.
TaxaLeft ==
    {c \in 1..Len(csv.columns) :
        /\ NamesTaxon(csv.columns[c])
        /\ \A m \in 1..Len(exclude_taxa) :
              ~HasPartIgnoringCase(csv.columns[c], exclude_taxa[m])}

\* The sum of the counts the file holds for the sample in the columns cs.
FileCounts(label, cs) ==
    LET at == Increasing(cs)
    IN  Sum([m \in 1..Len(at) |-> FileValue(label, csv.columns[at[m]])])

\* The sum of fractions, as a fraction.
RECURSIVE SumOfFractions(_)
SumOfFractions(fractions) ==
    IF fractions = <<>> THEN <<0, 1>>
    ELSE LET rest == SumOfFractions(Tail(fractions))
             first == Head(fractions)
         IN  <<first[1] * rest[2] + rest[1] * first[2], first[2] * rest[2]>>

\* Whether the fraction has the value of n over d.
IsFraction(fraction, n, d) ==
    fraction[2] # 0 /\ d # 0 /\ fraction[1] * d = n * fraction[2]

\* The states in which the table holds proportions.
HoldsProportions ==
    pc \in {"tab_sort_columns", "tab_count", "tab_sort_by_names", "tab_plot",
            "tab_xticks", "tab_csv", "tab_xlabels", "tab_return"}

\* C18: proportions are conserved.  Once the counts are normalised, every
\* sample left in the table whose counts of the taxa left by exclude_taxa
\* do not sum to 0 has, in every taxon column, its count over that sum (the
\* excluded taxa are no part of it), in Other the counts of all taxa left
\* that have no column of their own, over that sum, and its row sums to 1,
\* before and after the collapse by count.
C18_ProportionsConserved ==
    HoldsProportions =>
        \A row \in 1..Len(df.index) :
            LET label == df.index[row]
                total == FileCounts(label, TaxaLeft)
                shown == {c \in TaxaLeft : csv.columns[c] \in set(df.columns)}
            IN  total # 0 =>
                  /\ \A c \in 1..Len(df.columns) :
                        IF df.columns[c] = Other
                        THEN IsFraction(df.cells[row][c],
                                        FileCounts(label, TaxaLeft \ shown), total)
                        ELSE IsFraction(df.cells[row][c],
                                        FileValue(label, df.columns[c]), total)
                  /\ df.columns # <<>> =>
                        IsFraction(SumOfFractions(df.cells[row]), 1, 1)

\* A taxon is excluded and the two left are collapsed to one and Other.
C18_Witness ==
    /\ pc = "tab_return"
    /\ exclude_taxa = <<<<"k", "_", "_", "a">>>>
    /\ count = 2
    /\ sort_by_names = FALSE
    /\ csv.cells = <<<<"a", "y", 2, 1, 1>>, <<"b", "x", 0, 3, 1>>>>
    /\ exclude_samples = <<>> /\ sample_names = <<>>
    /\ df.columns = <<TaxonB, Other>>
    /\ df.cells = <<<<<<1, 2>>, <<1, 2>>>>, <<<<3, 4>>, <<1, 4>>>>>>

\* The number of x tick labels the chart of the table has: one per sample
\* for the bars, one per column for the boxes, none when they are hidden.
TicksOfChart ==
    IF hide_xlabels THEN 0
    ELSE IF fn = "taxa_abundance_bar_plot" THEN Len(df.index)
    ELSE IF df.cells = <<>> THEN 0
    ELSE Len(df.columns)

\* Whether the chart of the table is among what was drawn.
ChartDrawn ==
    /\ drawn # <<>>
    /\ drawn[1] \in {<<"bar", df>>, <<"boxplot", melt100(df)>>}

\* Whether the tick labels were set to labels of the caller.
LabelsReplaced ==
    \E m \in 1..Len(drawn) : drawn[m][1] = "set_xticklabels"

\* The call stopped in the loop over orders.
FailedOnOrders == pc = "tab_raised" /\ done < Len(orders)

\* The call stopped with a ValueError after the loop over orders.
FailedOnXlabels ==
    pc = "tab_raised" /\ done = Len(orders) /\ raised[1] = "ValueError"

\* C19: the order of validation and output in one call.  A call that
\* fails on orders has drawn nothing and written no file.  A call that
\* fails after it with a ValueError was given xlabels whose number differs
\* from the number of x tick labels of the chart, and has drawn the chart
\* and written csv_file, when one is given, without replacing a label.  A
\* call that returns was given no xlabels and keeps its labels, or as many
\* xlabels as the chart has tick labels, which replace them.
C19_ValidationAndOutputInOrder ==
    /\ FailedOnOrders => drawn = <<>> /\ disk = EmptyDict
    /\ FailedOnXlabels =>
          /\ xlabels # None
          /\ Len(xlabels) # TicksOfChart
          /\ ChartDrawn
          /\ ~LabelsReplaced
          /\ Len(xticklabels) = TicksOfChart
          /\ csv_file # None => disk = (csv_file :> df)
    /\ pc = "tab_return" =>
          /\ ChartDrawn
          /\ csv_file # None => disk = (csv_file :> df)
          /\ IF xlabels = None
             THEN ~LabelsReplaced /\ Len(xticklabels) = TicksOfChart
             ELSE /\ Len(xlabels) = TicksOfChart
                  /\ xticklabels = xlabels
                  /\ drawn[Len(drawn)] = <<"set_xticklabels", xlabels>>

\* A call with one label too many fails after the chart is drawn and the
\* file written.
C19_Witness ==
    /\ FailedOnXlabels
    /\ csv_file = CsvPath
    /\ disk = (CsvPath :> df)
    /\ ChartDrawn
    /\ hide_xlabels = FALSE
    /\ Len(xlabels) = TicksOfChart + 1

\* A call fails on orders.
C19_WitnessOrders ==
    /\ FailedOnOrders
    /\ csv_file = CsvPath
    /\ xlabels # None
    /\ drawn = <<>> /\ disk = EmptyDict

\* A call replaces the labels.
C19_WitnessReplaced ==
    /\ pc = "tab_return"
    /\ xlabels # None /\ xlabels # <<>>
    /\ xticklabels = xlabels
    /\ csv_file = CsvPath

(***************************************************************************)
(* Claims about read_quality_plot and alpha_rarefaction_plot               *)
(***************************************************************************)
\* The values the claim allows for the option of the running function.
AllowedOptions ==
    IF callee = "read_quality_plot"
    THEN {"forward", "reverse"}
    ELSE {"observed_features", "faith_pd", "shannon"}

\* The check of the option is behind the running call.
OptionChecked ==
    pc \in {"opt_read", "opt_plot", "opt_labels", "opt_return", "opt_raised"}

\* C13: read_quality_plot ends with a ValueError exactly when strand is
\* none of forward, reverse, and alpha_rarefaction_plot exactly when metric
\* is none of observed_features, faith_pd, shannon, compared as written; a
\* call that failed so has read no table and drawn nothing.
C13_OptionValidated ==
    OptionChecked =>
        IF option \in AllowedOptions
        THEN pc = "opt_raised" => error[1] # "ValueError"
        ELSE /\ pc = "opt_raised"
             /\ error[1] = "ValueError"
             /\ loaded = ""
             /\ canvas = <<>>

\* A strand that differs from an allowed one in case only is refused.
C13_Witness ==
    /\ pc = "opt_raised"
    /\ callee = "read_quality_plot"
    /\ option = "Forward"
    /\ error[1] = "ValueError"

\* A metric of the list is accepted, its table read and drawn.
C13_WitnessAccepted ==
    /\ pc = "opt_return"
    /\ callee = "alpha_rarefaction_plot"
    /\ option = "faith_pd"
    /\ canvas = <<<<"lineplot", "faith_pd.csv">>>>

\* The call has its scratch directory and is running.
OpRunning ==
    pc \in {"opt_save", "opt_export", "opt_check", "opt_read", "opt_plot", "opt_labels"}

\* C16: every call makes a scratch directory of its own, which is none of
\* the directories of the calls before it; the visualization is exported
\* into that directory; and once the call has ended, by a return or by a
\* raise, the directory exists no longer.
C16_ScratchDirectoryDiscarded ==
    /\ OpRunning => (scratch \in DOMAIN tmp /\ scratch \notin held)
    /\ pc \in {"opt_check", "opt_read", "opt_plot", "opt_labels"} =>
          archive \subseteq tmp[scratch]
    /\ pc \in {"opt_return", "opt_raised"} => scratch \notin DOMAIN tmp

\* C16, for the calls that return.
C16_DiscardedAtReturn ==
    /\ OpRunning => (scratch \in DOMAIN tmp /\ scratch \notin held)
    /\ pc \in {"opt_check", "opt_read", "opt_plot", "opt_labels"} =>
          archive \subseteq tmp[scratch]
    /\ pc = "opt_return" => scratch \notin DOMAIN tmp

(***************************************************************************)
(* The whole program: one call of one of the functions                     *)
(***************************************************************************)
Init == IdInit \/ MmInit \/ DmInit \/ TaInit \/ TpInit \/ OpInit

Next == IdNext \/ MmNext \/ DmNext \/ TaNext \/ TpNext \/ OpNext

Spec == Init /\ [][Next]_vars

====
